---- MODULE Spec2Model ----
(***************************************************************************)
(* A model of the device agent's middleware: the durable device-to-cloud   *)
(* outbox and its loader, the outbound sender, the MQTT event loop, the    *)
(* twin middleware and reconciler, and the SQLite-backed durable channel   *)
(* used for the cloud-to-device inbox.                                     *)
(***************************************************************************)
EXTENDS Integers, Sequences, FiniteSets, TLC

(***************************************************************************)
(* Bounds of the model.                                                    *)
(***************************************************************************)
\* Device messages stored over the lifetime of the database file.
MaxMsgs == 2
\* Times the client is dropped and reopened on the same database file.
MaxRuns == 1
\* Cloud-to-device messages the broker delivers.
MaxC2d == 3
\* Connection errors the MQTT event loop reports.
MaxErrors == 1
\* Twin requests (correlation ids) the middleware allocates.
MaxRid == 3
\* Highest twin version the server uses.
MaxVersion == 3
\* Desired patches buffered before the first full twin.
MaxBuf == 1
\* Reported-properties updates the application enqueues.
MaxUpdates == 2
\* Stored messages waiting for the loader when the client starts.
MaxSaved == 2
\* C2D publishes the broker delivers to the inbox writer.
MaxDeliveries == 3
\* Desired patches buffered before the first full twin, for the drain.
MaxDrain == 3
\* Calls of set_twins the drain model follows.
MaxSetTwins == 2
MaxNotify == 3
MaxCommands == 2
MaxFaults == 1
MaxExpiries == 1
MaxClock == 1
MaxLifetime == 40
\* Snapshot saves followed, and the versions they carry.
MaxSnapshots == 4
\* Completions of the other select branches that are followed.
MaxDrops == 3
MaxSnapshotVersion == 2
\* Calls build makes to the cloud before the model stops following it.
MaxCalls == 5
\* Rows one list_messages_after query returns (LIMIT 100 in the code, scaled).
ListLimit == 1
\* Capacity of the loader -> sender mpsc channel (100 in the code, scaled).
ChannelCap == 1
\* Capacity of the MQTT client's request queue (10 in the code, scaled).
RequestCap == 1

(***************************************************************************)
(* Program constants.                                                      *)
(***************************************************************************)
\* options.set_inflight(1): unacknowledged publishes the MQTT client allows.
Inflight == 1
\* watch::channel(-1): the value of the latest-id watch before any add.
NoMsgId == -1

\* Option::None of an id; ids are positive and None orders below every Some.
None == 0
\* The delay before a failed provisioning step is tried again (ms).
RetryDelayMs == 5000
\* A content longer than this many bytes is sent through a file upload.
FileUploadLimit == 250000

EVENTS_TOPIC == "devices/{device_id}/messages/events/"
TWIN_GET_TOPIC == "$iothub/twin/GET/"
TWIN_PATCH_TOPIC == "$iothub/twin/PATCH/properties/reported/"

(***************************************************************************)
(* Helpers on sets and sequences of row ids.                               *)
(***************************************************************************)
Min(S) == CHOOSE x \in S : \A y \in S : x <= y

Range(s) == {s[i] : i \in DOMAIN s}

RECURSIVE OrderById(_)
\* ORDER BY id: the ids of a set of rows as an ascending sequence.
OrderById(S) == IF S = {} THEN <<>> ELSE <<Min(S)>> \o OrderById(S \ {Min(S)})

\* LIMIT n
Limit(s, n) == IF Len(s) <= n THEN s ELSE SubSeq(s, 1, n)

StrictlyAscending(s) == \A i, j \in DOMAIN s : i < j => s[i] < s[j]

Ascending(s) == \A i, j \in DOMAIN s : i < j => s[i] <= s[j]

(***************************************************************************)
(* State.                                                                  *)
(***************************************************************************)
VARIABLES
    \* ---- persistent (the database file) ----
    outbox,          \* ids of the rows of table Messages
    msg_seq,         \* AUTOINCREMENT sequence of table Messages
    \* ---- Producer / outbox loader task ----
    adding,          \* ids stored by Producer::add whose watch send is still to come
    latest_msg_id,   \* value of the latest-id watch
    latest_unseen,   \* the loader's watch receiver has an unseen change
    loader_pc,       \* position of the loader task: "list", "check", "forward", "wait"
    last_id,         \* the loader's last_id
    messages,        \* rows of the current query still to be forwarded
    message_queue,   \* mpsc channel loader -> Sender (Consumer.receiver)
    \* ---- MQTT client and event loop ----
    mqtt_requests,   \* request queue of the MQTT client
    mqtt_pending,    \* publishes the client retransmits after a reconnect
    outgoing_pub,    \* publishes sent and not yet acknowledged (at most Inflight)
    last_pkid,       \* the client's last packet id
    connected,       \* the MQTT session is up
    pending_d2c,     \* EventLoop.pending_d2c: packet ids of D2C publishes
    state,           \* the State watch: "Ready" or "ConnectionError"
    state_unseen,    \* the twin middleware's receiver has an unseen state
    errors,          \* connection errors so far
    \* ---- twin middleware ----
    was_disconnected,
    requests,        \* request table: correlation id -> response type
    rid_seq,         \* correlation ids allocated so far
    \* ---- facade: wait_enqueued_messages_sent ----
    wait_pc,         \* "idle", "count", "counted", "returned", "failed"
    cnt,             \* the count the call read last
    \* ---- lifetime ----
    run,             \* number of restarts so far
    \* ---- history (observations, not program state) ----
    handed_log,      \* ids the Sender received in this run, in order
    published_log,   \* ids published on the events topic in this run, in order
    confirmed,       \* ids whose D2C publish was acknowledged by a PUBACK
    removed_log,     \* ids deleted from Messages, in order
    stored_before,   \* ids stored before the current wait call started
    enq_during_wait, \* an add completed its store while the wait call ran
    edge_open,       \* a ConnectionError -> Ready edge not yet followed by a GetTwins publish
    left_at_drop,    \* the rows in the outbox when the client was last dropped
    twin_sent        \* request ids of the twin requests the client has transmitted

session_vars == <<outbox, msg_seq, adding, latest_msg_id, latest_unseen, loader_pc,
                  last_id, messages, message_queue, mqtt_requests, mqtt_pending,
                  outgoing_pub, last_pkid, connected, pending_d2c, state, state_unseen,
                  errors, was_disconnected, requests, rid_seq, wait_pc, cnt, run,
                  handed_log, published_log, confirmed, removed_log, stored_before,
                  enq_during_wait, edge_open, left_at_drop, twin_sent>>

\* The durable channel of the cloud-to-device inbox and its consumers.
VARIABLES
    c2d_rows,        \* ids of the rows of table CloudToDeviceMessages
    c2d_seq,         \* the highest id the table has handed out
    last_saved,      \* Sender/Receiver.last_saved: the watch value (None or an id)
    last_received,   \* Receiver.last_received
    consumer_lock,   \* holder of the Mutex around the receiver
    c2d_handler_registered, \* BaseConnection.c2d_handler_registered
    proc_pc,         \* position of the process_c2d thread
    proc_msg,        \* the message the thread's callback was given
    get_pc,          \* position of a get_c2d call
    guards,          \* messages of the live CloudToDeviceMessageGuards
    recv_log,        \* history: ids returned by recv in this run
    handed_ever,     \* history: ids handed to user code in any run
    ack_log,         \* history: ids whose ack removed the row, in order
    left_unacked,    \* history: rows in the table at the last restart
    ack_failed,      \* history: the message whose removal failed in the last
                     \* iteration of the process_c2d loop (None otherwise)
    chan_run         \* restarts of the process so far

chan_vars == <<c2d_rows, c2d_seq, last_saved, last_received, consumer_lock,
               c2d_handler_registered, proc_pc, proc_msg, get_pc, guards, recv_log,
               handed_ever, ack_log, left_unacked, ack_failed,
               chan_run>>

\* The device twin reconciler.
VARIABLES
    desired,         \* DeviceTwin.desired
    reported,        \* DeviceTwin.reported
    desired_properties_updates, \* DeviceTwin.desired_properties_updates (versions)
    stored_desired,  \* the latest Desired row of table Twins
    stored_reported, \* the latest Reported row of table Twins
    notify_log,      \* history: versions of the DesiredProperties dispatched
    last_patch,      \* history: what the handler did with the last desired patch
    twin_run,        \* restarts of the process so far
    desired_initialized,  \* DeviceTwin.desired_initialized_tx (the latch)
    reported_initialized, \* DeviceTwin.reported_initialized_tx (the latch)
    ready_pc,        \* DeviceClient::new in wait_properties_ready: "desired",
                     \* "reported", or "ready" once the client is returned
    get_desired_result, \* the result of the last desired_properties call
    reported_updates,      \* ids of the rows of table ReportedPropertiesUpdates
    reported_seq,          \* AUTOINCREMENT of that table
    reported_last_saved,   \* the channel's watch of the last stored id
    reported_last_received \* its Receiver.last_received

twin_vars == <<desired, reported, desired_properties_updates, stored_desired,
               stored_reported, notify_log, last_patch, twin_run,
               desired_initialized, reported_initialized, ready_pc, get_desired_result,
               reported_updates, reported_seq, reported_last_saved,
               reported_last_received>>

\* One Full reported-properties update: the diff against the current
\* reported properties and the merge of that diff.
VARIABLES
    original,        \* json_diff::diff, argument original (parsed)
    desired_json,    \* json_diff::diff, argument desired (parsed)
    patch,           \* the patch diff returned
    merged,          \* original after json_patch::merge(&mut original, &patch)
    diff_pc          \* "input", "diffed" or "merged"

diff_vars == <<original, desired_json, patch, merged, diff_pc>>

\* One call of SqliteStore::init on an existing database file.
VARIABLES
    db,              \* the file: schema version, columns present, configuration row
    config,          \* init's argument config
    opened_db,       \* the file as it was when init was called
    applied,         \* the migrations run by this call, in order
    store_pc         \* "closed", "updated", "saved" or "failed"

store_vars == <<db, config, opened_db, applied, store_pc>>

\* One call of DeviceClientBuilder::build, up to the credentials it obtains.
VARIABLES
    db_config,       \* the fragment loaded from the database file
    options,         \* the builder's provisioning token and device id
    build_pc,        \* where build is: "start", "init", "init_sleep", "display",
                     \* "complete", "complete_sleep", "register",
                     \* "register_sleep", "credentials", "failed" or "idle"
    signal,          \* check_signals would return an error
    signal_reported, \* a check_signals call returned an error
    last_call,       \* the last call to the cloud or the hook, and its result
    slept,           \* ms slept since last_call
    reuse_response,  \* the result of register_if_connected's call, if made
    provisioning,    \* provision_device was entered
    init_calls,      \* calls of Provisioning::init
    register_calls,  \* calls of drs::register
    calls,           \* calls to the cloud
    credentials      \* what obtain_valid_credentials returned

build_vars == <<db_config, options, build_pc, signal, signal_reported, last_call, slept,
                reuse_response, provisioning, init_calls, register_calls, calls,
                credentials>>

\* One call of Sender::publish_iothub.
VARIABLES
    msg,             \* the DeviceMessage taken from the channel, with the length
                     \* Brotli would compress its content to
    send_pc,         \* "taken", "upload", "publish", "sent", "not_sent" or "idle"
    content,         \* the bytes chosen: which ones and how many
    properties,      \* the properties pushed so far, in order
    published        \* the topic properties and payload handed to the client

send_vars == <<msg, send_pc, content, properties, published>>

\* Start-up and shutdown of the connection: the tasks the I/O thread waits
\* for and the drop of the client.
VARIABLES
    cancellation,    \* the CancellationToken: TRUE once cancelled
    registration,    \* the registration watch: "none", "some", or "closed"
                     \* once the registration worker has dropped its sender
    connection_pc,   \* the connection task: "first_registration", "subacks",
                     \* "twins", "online", "failed" or "panicked"
    mqtt_task,       \* "none", "running" or "ended"
    sender_task,     \* "none", "running" or "ended"
    twins_task,      \* "none", "running" or "ended"
    loader_task,     \* the outbox loader: "running" or "ended"
    sender_pc,       \* "select" or "upload" (inside the file upload loop)
    saved,           \* kinds of the stored messages the loader has not sent yet
    loaded,   \* kinds of the messages in the loader's channel
    disconnect,      \* the Disconnect request: "none", "requested" or "sent"
    thread_pc,       \* the I/O thread: "connection", "tasks" or "finished"
    drop_pc          \* the drop: "alive", "grace", "join" or "dropped"

drop_vars == <<cancellation, registration, connection_pc, mqtt_task, sender_task,
               twins_task, loader_task, sender_pc, saved, loaded, disconnect,
               thread_pc, drop_pc>>

\* CloudToDeviceHandler::handle, publish by publish.
VARIABLES
    delivered,       \* the C2D publishes the event loop has handed to the handler
    inbox,           \* rows of CloudToDeviceMessages with their properties
    inbox_seq,       \* the highest row id the table has handed out
    inbox_saved,     \* the value of the inbox channel's watch
    store_errors,    \* packet ids of the publishes whose store returned an error
    acks             \* packet ids handed to AsyncClient::ack

inbox_vars == <<delivered, inbox, inbox_seq, inbox_saved, store_errors, acks>>

\* The first full twin over buffered desired patches.
VARIABLES
    drained          \* history: the buffer and the server version the last
                     \* set_twins call started from, whether it succeeded, and
                     \* the number of calls so far

drain_vars == <<drained>>

\* The desired-properties callback dispatcher: the std::sync::mpsc channel
\* between the reconciler and the dispatcher thread, the sender half held by
\* the dispatcher, the thread's position ("recv", "callback", "stopped"),
\* the notification the callback is running on (current), the calls the callback has
\* finished with their outcomes, the number of notifications dispatched and
\* the results dispatch has returned to the reconciler.
VARIABLES dispatch_channel, dispatch_sender, dispatcher_pc, current,
          callback_log, dispatched, dispatch_results

callback_vars == <<dispatch_channel, dispatch_sender, dispatcher_pc, current,
                   callback_log, dispatched, dispatch_results>>

\* The credential engine (TokenHandler) and the event loop's handling of
\* connection errors.  Instants are kept as natural numbers.
VARIABLES
    now,             \* Instant::now() of the next reading of the clock
    commands,        \* the unbounded RegistrationCommand channel
    last_token_refresh_attempt,        \* TokenHandler.last_token_refresh_attempt
    last_registration_refresh_attempt, \* TokenHandler.last_registration_refresh_attempt
    handler_pc,      \* TokenHandler::refresh_tokens: "check", "select", "drain", "pause"
    retry,           \* the kind process_command enqueues again after its pause
    registration_watch, \* the registration watch as the event loop's receiver sees it
    password,        \* the SAS set as password in the MQTT options (set_credentials)
    el_pc,           \* EventLoop::run: "poll", "sleep" (the 5 s backoff), "stopped"
    min_valid,       \* the oldest SAS the hub still accepts
    sas_expired,     \* the validity of the latest SAS has passed
    token_expired,   \* the expiration of the registration token has passed
    token_rejected,  \* the platform rejects the registration token as invalid
    faults,          \* connection faults injected so far
    expiries,        \* expirations and rejections injected so far
    last_error,      \* history: what process_notification did with the last error
    last_command        \* history: what process_command did with the last command

cred_vars == <<now, commands, last_token_refresh_attempt,
               last_registration_refresh_attempt, handler_pc, retry,
               registration_watch, password, el_pc, min_valid, sas_expired,
               token_expired, token_rejected, faults, expiries, last_error, last_command>>

\* TokenHandler::expect_clockskew: the clock, the expiration it is given and
\* what it returns (in a sequence, empty before the call), all in half minutes (so that half of a lifetime of whole
\* minutes is exact, as it is with chrono's nanoseconds).
VARIABLES utc_now, expiration, skewed

skew_vars == <<utc_now, expiration, skewed>>

\* ---- the Twins table of the store (persistence/sqlite.rs) ----
VARIABLES
    twins_rows,       \* the rows of table Twins: [id, type, properties]
    twins_seq,        \* the table's AUTOINCREMENT counter
    snapshot_saved,   \* per kind, <<twin>> of the last save (<<>> before one)
    snapshot_loaded   \* <<>>, or <<kind, result>> of the last load

snap_vars == <<twins_rows, twins_seq, snapshot_saved, snapshot_loaded>>

\* ---- the desired-properties change watch (handlers/twins.rs, twins/mod.rs) ----
VARIABLES
    desired_properties_changed, \* the watch: [version, unseen]
    changed_result   \* the last IotHubTwinsClient::desired_properties_changed
                     \* call: [called, absent, version]

watch_vars == <<desired_properties_changed, changed_result>>

\* ---- the middleware's select over a pending durable-channel recv ----
VARIABLES
    recv_pc,      \* the pending recv: "wait_new" (in wait_new) or "load" (wait_new
                  \* has returned, the connection or the query is awaited)
    handled,      \* history: ids handed to update_reported_properties, in order
    last_branch,  \* the select branch that completed last
    drops,        \* other branches that completed so far
    load_drops,   \* those that dropped a recv which was past wait_new
    run_base      \* history: the highest id stored before this run began

recv_vars == <<recv_pc, handled, last_branch, drops, load_drops, run_base>>

vars == <<session_vars, chan_vars, twin_vars, diff_vars, store_vars, build_vars, send_vars,
         drop_vars, inbox_vars,
         drain_vars,
         callback_vars,
         cred_vars,
         skew_vars,
         snap_vars,
         watch_vars,
         recv_vars>>

(***************************************************************************)
(* Persistence store: table Messages.                                      *)
(***************************************************************************)
\* A variant of the query without the WHERE id > after cursor.
ListMessagesAfter_NoCursor(rows, after) ==
    Limit(OrderById(rows), ListLimit)

\* SqliteStore::list_messages_after: WHERE id > after ORDER BY id LIMIT 100
ListMessagesAfter(rows, after) ==
    Limit(OrderById({id \in rows : id > after}), ListLimit)

\* A variant of the count that reports an empty table.
MessageCount_Zero(rows) == 0

\* SqliteStore::message_count
MessageCount(rows) == Cardinality(rows)

\* A variant of the delete that removes nothing.
RemoveOldestMessage_Noop(rows) == rows

\* SqliteStore::remove_oldest_message:
\* DELETE FROM Messages WHERE id = (SELECT id FROM Messages ORDER BY id LIMIT 1)
RemoveOldestMessage(rows) == IF rows = {} THEN rows ELSE rows \ {Min(rows)}

(***************************************************************************)
(* JSON values (serde_json::Value).  Every value is a record of one shape: *)
(* its kind, the number of a number, the members of an object as a set of  *)
(* <<name, value>> pairs.  An array is a value that is not an object; its  *)
(* elements play no part in diff or merge.                                 *)
(***************************************************************************)
JNull == [kind |-> "null", n |-> 0, m |-> {}]

JNumber(i) == [kind |-> "number", n |-> i, m |-> {}]

JArray == [kind |-> "array", n |-> 0, m |-> {}]

JObject(members) == [kind |-> "object", n |-> 0, m |-> members]

\* Marks a name the object under construction does not contain.
Absent == [kind |-> "absent", n |-> 0, m |-> {}]

\* Member names and values the inputs are built from.
Names == {"a", "b"}

Leaves == {JNull, JNumber(1), JArray}

\* The objects with members named in Names and values in vals.
ObjectsOver(vals) ==
    {JObject({<<k, f[k]>> : k \in {x \in Names : f[x] # Absent}}) :
        f \in [Names -> vals \cup {Absent}]}

\* The inputs: objects nested up to two deep.
JsonObjects == ObjectsOver(Leaves \cup ObjectsOver(Leaves))

\* Map::contains_key
ContainsKey(obj, name) == \E q \in obj.m : q[1] = name

\* Map::get, for a name the object contains
Get(obj, name) == (CHOOSE q \in obj.m : q[1] = name)[2]

\* Option<serde_json::Value>
NoValue == [some |-> FALSE, v |-> JNull]

SomeValue(v) == [some |-> TRUE, v |-> v]

RECURSIVE diff_objects_KeepRemoved(_, _)
\* A variant of diff_objects that does not emit null for removed members.
diff_objects_KeepRemoved(o, d) ==
    IF o = d THEN NoValue
    ELSE IF d.kind # "object" THEN SomeValue(d)
    ELSE IF o.kind # "object" THEN SomeValue(d)
    ELSE SomeValue(JObject(
            {q \in d.m : ~ContainsKey(o, q[1])}
            \cup {<<q[1], diff_objects_KeepRemoved(Get(o, q[1]), q[2]).v>> :
                    q \in {r \in d.m : /\ ContainsKey(o, r[1])
                                        /\ diff_objects_KeepRemoved(Get(o, r[1]), r[2]).some}}))

RECURSIVE diff_objects(_, _)
\* json_diff::diff_objects
diff_objects(o, d) ==
    IF o = d THEN NoValue
    ELSE IF d.kind # "object" THEN SomeValue(d)
    ELSE IF o.kind # "object" THEN SomeValue(d)
    ELSE SomeValue(JObject(
            {q \in d.m : ~ContainsKey(o, q[1])}
            \cup {<<q[1], diff_objects(Get(o, q[1]), q[2]).v>> :
                    q \in {r \in d.m : /\ ContainsKey(o, r[1])
                                        /\ diff_objects(Get(o, r[1]), r[2]).some}}
            \cup {<<q[1], JNull>> : q \in {r \in o.m : ~ContainsKey(d, r[1])}}))

\* json_diff::diff on parsed values: diff_objects(..).unwrap_or_else(|| json!({}))
diff(o, d) == IF diff_objects(o, d).some THEN diff_objects(o, d).v ELSE JObject({})

RECURSIVE merge(_, _)
\* json_patch::merge: a patch that is not an object replaces the document;
\* a null member removes the member, any other member is merged into it.
merge(doc, p) ==
    IF p.kind # "object" THEN p
    ELSE LET base == IF doc.kind = "object" THEN doc ELSE JObject({}) IN
        JObject(
            {q \in base.m : ~ContainsKey(p, q[1])}
            \cup {<<q[1], merge(IF ContainsKey(base, q[1]) THEN Get(base, q[1]) ELSE JNull,
                                q[2])>> :
                    q \in {r \in p.m : r[2] # JNull}})

RECURSIVE HasNullMember(_)
\* Some member of the object, at any depth, is null.
HasNullMember(v) ==
    \E q \in v.m : q[2] = JNull \/ HasNullMember(q[2])

(***************************************************************************)
(* Persistence store: schema versions and migrations.  A database file is  *)
(* its schema version, the columns its tables have, and the configuration  *)
(* row.  A URL is the sequence of the labels of its host.  A legacy file    *)
(* keeps the URL of the provisioning service in dps_url and the composite  *)
(* "workspace:device" in device_id, and has no workspace_id column.         *)
(***************************************************************************)
DB_VERSION == "1.2.0"

Null == "null"

LegacyVersions == {"0.1.3", "1.0.1", "1.1.0"}

\* Versions that are neither current nor known to try_update_version.
OtherVersions == {"0.1.2", "1.3.0"}

ProvisioningTokens == {"pt1", "pt2"}
RegistrationTokens == {"rt1", "rt2"}
Expirations == {Null, "2030-01-01"}
RequestedIds == {Null, "d1"}
DeviceIds == {"d1", "d2"}
WorkspaceIds == {"w1"}
CompositeIds == {"w1:d1", "w1:d2"}
DpsUrls == {<<"device-provisioning", "eu1">>, <<"eu1">>}
InstanceUrls == {<<"eu1">>, <<"us1">>}

\* The configuration rows of a file of each shape.
LegacyRows(requested_ids) ==
    [provisioning_token : ProvisioningTokens, registration_token : RegistrationTokens,
     rt_expiration : Expirations, requested_device_id : requested_ids,
     url : DpsUrls, workspace_id : {Null}, device_id : CompositeIds]

CurrentRows ==
    [provisioning_token : ProvisioningTokens, registration_token : RegistrationTokens,
     rt_expiration : Expirations, requested_device_id : RequestedIds,
     url : InstanceUrls, workspace_id : WorkspaceIds, device_id : DeviceIds]

Db(version, requested_col, batch_cols, legacy, row) ==
    [db_version |-> version, requested_device_id_col |-> requested_col,
     batch_cols |-> batch_cols, legacy |-> legacy, row |-> row]

\* The files each version of the SDK left behind.  A file marked 1.0.1 may
\* already have the columns of 1.1.0.
DatabaseFiles ==
    {Db("0.1.3", FALSE, FALSE, TRUE, r) : r \in LegacyRows({Null})}
    \cup {Db("1.0.1", TRUE, b, TRUE, r) : b \in BOOLEAN, r \in LegacyRows(RequestedIds)}
    \cup {Db("1.1.0", TRUE, TRUE, TRUE, r) : r \in LegacyRows(RequestedIds)}
    \cup {Db(DB_VERSION, TRUE, TRUE, FALSE, r) : r \in CurrentRows}
    \cup {Db("0.1.2", FALSE, FALSE, TRUE, r) : r \in LegacyRows({Null})}
    \cup {Db("1.3.0", TRUE, TRUE, FALSE, r) : r \in CurrentRows}

SdkConfigurations == CurrentRows

CurrentConfig ==
    [provisioning_token |-> "pt1", registration_token |-> "rt1", rt_expiration |-> Null,
     requested_device_id |-> Null, url |-> <<"eu1">>, workspace_id |-> "w1",
     device_id |-> "d1"]

CurrentDb == Db(DB_VERSION, TRUE, TRUE, FALSE, CurrentConfig)

\* convert_dps_url_to_instance_url: the host without its leading
\* "device-provisioning." labels.
RECURSIVE convert_dps_url_to_instance_url(_)
convert_dps_url_to_instance_url(dps_url) ==
    IF dps_url # <<>> /\ Head(dps_url) = "device-provisioning"
    THEN convert_dps_url_to_instance_url(Tail(dps_url))
    ELSE dps_url

update_version_to_1_0_1(d) ==
    [d EXCEPT !.requested_device_id_col = TRUE, !.db_version = "1.0.1"]

update_version_to_1_1_0(d) ==
    [d EXCEPT !.batch_cols = TRUE, !.db_version = "1.1.0"]

\* The new table takes the row's tokens, expiration and requested device id
\* from the old one, the instance URL from dps_url, and the workspace and
\* device ids from the values the caller supplied.
update_version_to_1_2_0(d, values) ==
    [d EXCEPT !.db_version = "1.2.0", !.legacy = FALSE,
              !.row = [@ EXCEPT !.device_id = values.device_id,
                                !.url = convert_dps_url_to_instance_url(d.row.url),
                                !.workspace_id = values.workspace_id]]

\* try_update_version without the fall-through from one step to the next.
try_update_version_OneStep(d, values) ==
    IF d.db_version = "0.1.3"
    THEN [ok |-> TRUE, db |-> update_version_to_1_0_1(d), applied |-> <<"1.0.1">>]
    ELSE IF d.db_version = "1.0.1"
    THEN [ok |-> TRUE, db |-> update_version_to_1_1_0(d), applied |-> <<"1.1.0">>]
    ELSE IF d.db_version = "1.1.0"
    THEN [ok |-> TRUE, db |-> update_version_to_1_2_0(d, values), applied |-> <<"1.2.0">>]
    ELSE [ok |-> d.db_version = DB_VERSION, db |-> d, applied |-> <<>>]

try_update_version(d, values) ==
    IF d.db_version = DB_VERSION THEN [ok |-> TRUE, db |-> d, applied |-> <<>>]
    ELSE
        LET s1 == IF d.db_version = "0.1.3"
                  THEN [known |-> TRUE, db |-> update_version_to_1_0_1(d),
                        applied |-> <<"1.0.1">>, v |-> "1.0.1"]
                  ELSE [known |-> FALSE, db |-> d, applied |-> <<>>, v |-> d.db_version]
            s2 == IF s1.v = "1.0.1"
                  THEN [known |-> TRUE, db |-> update_version_to_1_1_0(s1.db),
                        applied |-> Append(s1.applied, "1.1.0"), v |-> "1.1.0"]
                  ELSE s1
            s3 == IF s2.v = "1.1.0"
                  THEN [known |-> TRUE, db |-> update_version_to_1_2_0(s2.db, values),
                        applied |-> Append(s2.applied, "1.2.0"), v |-> "1.1.0"]
                  ELSE s2
        IN  [ok |-> s3.known, db |-> s3.db, applied |-> s3.applied]

\* The steps from a legacy version to the current one.
ChainFrom(version) ==
    IF version = "0.1.3" THEN <<"1.0.1", "1.1.0", "1.2.0">>
    ELSE IF version = "1.0.1" THEN <<"1.1.0", "1.2.0">>
    ELSE IF version = "1.1.0" THEN <<"1.2.0">>
    ELSE <<>>

(***************************************************************************)
(* Twins.  The properties of a twin are kept as the version of the full    *)
(* snapshot they came from and the versions of the patches merged since.   *)
(***************************************************************************)
\* Option<Twin>::None
NoTwin == [some |-> FALSE, version |-> 0, base |-> 0, patches |-> {}]

\* Some(Twin { properties, version }) of a full snapshot
Snapshot(version) == [some |-> TRUE, version |-> version, base |-> version, patches |-> {}]

\* merge(&mut twin.properties, &update.patch); twin.version = version
Merge(twin, version) ==
    [twin EXCEPT !.version = version, !.patches = @ \cup {version}]

\* A variant of Twin::update that merges an old patch instead of ignoring it.
TwinUpdate_MergeOld(twin, new_version) ==
    IF new_version <= twin.version + 1
        THEN [ok |-> TRUE, twin |-> [twin EXCEPT !.patches = @ \cup {new_version}]]
        ELSE [ok |-> FALSE, twin |-> twin]

\* Twin::update with Some(new_version): ignore an old patch, apply the next
\* one, fail on one that would skip updates.
TwinUpdate(twin, new_version) ==
    IF new_version <= twin.version THEN [ok |-> TRUE, twin |-> twin]
    ELSE IF new_version = twin.version + 1
        THEN [ok |-> TRUE, twin |-> Merge(twin, new_version)]
        ELSE [ok |-> FALSE, twin |-> twin]

RECURSIVE DrainUpdates(_, _)
\* while let Some(update) = updates.pop_front() { desired.update(update)? }
DrainUpdates(twin, updates) ==
    IF updates = <<>> THEN [ok |-> TRUE, twin |-> twin, updates |-> updates]
    ELSE LET r == TwinUpdate(twin, Head(updates)) IN
        IF r.ok THEN DrainUpdates(r.twin, Tail(updates))
        ELSE [ok |-> FALSE, twin |-> twin, updates |-> Tail(updates)]

\* A variant of the version check that never ignores a snapshot.
IgnoreOlder_Never(version, twin) == FALSE

\* set_desired_properties / set_reported_properties: if version < twin.version
IgnoreOlder(version, twin) == twin.some /\ version < twin.version

\* DeviceTwin::update_desired_properties, Some(twin): version == twin.version + 1
IsNextVersion(version, twin) == version = twin.version + 1

\* AsyncClient::try_publish: enqueue the request unless the queue is full.
TryPublish(queue, req) ==
    IF Len(queue) < RequestCap THEN [ok |-> TRUE, queue |-> Append(queue, req)]
    ELSE [ok |-> FALSE, queue |-> queue]

\* TwinsMiddleware::get_twins: register a new request id, then try_publish.
GetTwins(reqs, rid, queue) ==
    LET p == TryPublish(queue, [topic |-> TWIN_GET_TOPIC, id |-> rid + 1, pkid |-> 0]) IN
    [ok |-> p.ok, mqtt_requests |-> p.queue, rid_seq |-> rid + 1,
     requests |-> reqs \cup {[rid |-> rid + 1, type |-> "GetTwins", update |-> None]}]

(***************************************************************************)
(* Durable channel: the Storable operations on a table.                    *)
(***************************************************************************)
\* A variant of load without the WHERE id > minimum_id cursor.
Load_NoCursor(rows, minimum_id) ==
    IF rows = {} THEN None ELSE Min(rows)

\* Storable::load: WHERE id > minimum_id ORDER BY id LIMIT 1 (None: no row)
Load(rows, minimum_id) ==
    IF {id \in rows : id > minimum_id} = {} THEN None
    ELSE Min({id \in rows : id > minimum_id})

\* Storable::remove: DELETE ... WHERE id = id
Remove(rows, id) == rows \ {id}

\* Sender::send, the watch update: the new id unless the previous is higher.
SendReplace(last, id) == IF last > id THEN last ELSE id

\* A wait_new that never returns.
MustWait_Always(last_inserted, received) == TRUE

\* Receiver::wait_new, the loop condition: last_inserted <= self.last_received
MustWait(last_inserted, received) == last_inserted <= received

\* A variant of recv that leaves the cursor where it was.
Received_Keep(received, id) == received

\* Receiver::recv: self.last_received = Some(obj.id())
Received(received, id) == id

\* topics::publish_topic + starts_with: is the publish a device-to-cloud message
IsD2CTopic(topic) == topic = EVENTS_TOPIC

\* The MQTT client's packet id allocation: ids cycle through 1..Inflight.
NextPkid(last) == last + 1

\* The client's last_pkid after it handed out pkid.
AfterPkid(pkid) == IF pkid = Inflight THEN 0 ELSE pkid

\* The state of a freshly built client on a new database file.
InitClient ==
    /\ outbox = {}
    /\ msg_seq = 0
    /\ adding = {}
    /\ latest_msg_id = NoMsgId
    /\ latest_unseen = FALSE
    /\ loader_pc = "list"
    /\ last_id = NoMsgId
    /\ messages = <<>>
    /\ message_queue = <<>>
    /\ mqtt_requests = <<>>
    /\ mqtt_pending = <<>>
    /\ outgoing_pub = <<>>
    /\ last_pkid = 0
    /\ connected = TRUE
    /\ pending_d2c = {}
    /\ state = "Ready"
    /\ state_unseen = FALSE
    /\ errors = 0
    /\ was_disconnected = FALSE
    /\ requests = {}
    /\ rid_seq = 0
    /\ wait_pc = "idle"
    /\ cnt = 0
    /\ run = 0
    /\ handed_log = <<>>
    /\ published_log = <<>>
    /\ confirmed = {}
    /\ removed_log = <<>>
    /\ stored_before = {}
    /\ enq_during_wait = FALSE
    /\ edge_open = FALSE
    /\ left_at_drop = {}
    /\ twin_sent = {}
    /\ c2d_rows = {}
    /\ c2d_seq = 0
    /\ last_saved = None
    /\ last_received = None
    /\ consumer_lock = "free"
    /\ c2d_handler_registered = FALSE
    /\ proc_pc = "off"
    /\ proc_msg = None
    /\ get_pc = "idle"
    /\ guards = <<>>
    /\ recv_log = <<>>
    /\ handed_ever = {}
    /\ ack_log = <<>>
    /\ left_unacked = {}
    /\ ack_failed = None
    /\ chan_run = 0
    /\ desired = NoTwin
    /\ reported = NoTwin
    /\ desired_properties_updates = <<>>
    /\ stored_desired = NoTwin
    /\ stored_reported = NoTwin
    /\ notify_log = <<>>
    /\ last_patch = [gap |-> FALSE, applied |-> FALSE, requested |-> FALSE]
    /\ twin_run = 0
    /\ desired_initialized = FALSE
    /\ reported_initialized = FALSE
    /\ ready_pc = "desired"
    /\ get_desired_result = "none"
    /\ reported_updates = {}
    /\ reported_seq = 0
    /\ reported_last_saved = None
    /\ reported_last_received = None

\* No Full reported-properties update is being computed.
InitDiffIdle ==
    /\ original = JObject({})
    /\ desired_json = JObject({})
    /\ patch = JObject({})
    /\ merged = JObject({})
    /\ diff_pc = "merged"

\* No database file is being opened by the migration model.
InitStoreIdle ==
    /\ db = CurrentDb
    /\ config = CurrentConfig
    /\ opened_db = CurrentDb
    /\ applied = <<>>
    /\ store_pc = "saved"

\* SdkConfigurationFragment: Null stands for None.
NoFragment ==
    [provisioning_token |-> Null, registration_token |-> Null, expired |-> FALSE,
     requested_device_id |-> Null, workspace_id |-> Null, device_id |-> Null]

NoCall == [step |-> "none", result |-> "none"]

NoCredentials ==
    [registration_token |-> Null, workspace_id |-> Null, device_id |-> Null,
     response |-> FALSE]

\* No build is in progress in the builder model.
InitBuildIdle ==
    /\ db_config = NoFragment
    /\ options = [provisioning_token |-> "pt1", device_id |-> Null]
    /\ build_pc = "idle"
    /\ signal = FALSE
    /\ signal_reported = FALSE
    /\ last_call = NoCall
    /\ slept = 0
    /\ reuse_response = "none"
    /\ provisioning = FALSE
    /\ init_calls = 0
    /\ register_calls = 0
    /\ calls = 0
    /\ credentials = NoCredentials

NoContent == [bytes |-> "none", len |-> 0]

NoPublish == [properties |-> <<>>, payload |-> NoContent]

IdleMessage ==
    [present |-> {}, content_len |-> 0, compression |-> "None", brotli_len |-> 1,
     close_option |-> "None"]

\* The sender has no message in hand.
InitSendIdle ==
    /\ msg = IdleMessage
    /\ send_pc = "idle"
    /\ content = NoContent
    /\ properties = <<>>
    /\ published = NoPublish

\* No connection is being set up or dropped.
InitDropIdle ==
    /\ cancellation = FALSE
    /\ registration = "none"
    /\ connection_pc = "idle"
    /\ mqtt_task = "none"
    /\ sender_task = "none"
    /\ twins_task = "none"
    /\ loader_task = "none"
    /\ sender_pc = "select"
    /\ saved = <<>>
    /\ loaded = <<>>
    /\ disconnect = "none"
    /\ thread_pc = "idle"
    /\ drop_pc = "idle"

\* No C2D publish has arrived.
InitInboxIdle ==
    /\ delivered = <<>>
    /\ inbox = {}
    /\ inbox_seq = 0
    /\ inbox_saved = None
    /\ store_errors = {}
    /\ acks = {}

\* set_twins has not been called.
InitDrainIdle ==
    drained = [updates |-> <<>>, version |-> 0, first |-> FALSE, ok |-> FALSE, calls |-> 0]

\* The dispatcher has just been created: the thread waits in recv.
InitCallbackIdle ==
    /\ dispatch_channel = <<>>
    /\ dispatch_sender = "some"
    /\ dispatcher_pc = "recv"
    /\ current = None
    /\ callback_log = <<>>
    /\ dispatched = 0
    /\ dispatch_results = <<>>

\* The first registration has succeeded (its SAS is number 1), connect_iothub
\* has put it into the MQTT options and marked it seen, and the engine is at
\* the top of its second loop with no command waiting.
InitCredIdle ==
    /\ now = 0
    /\ commands = <<>>
    /\ last_token_refresh_attempt = 0
    /\ last_registration_refresh_attempt = 0
    /\ handler_pc = "check"
    /\ retry = "none"
    /\ registration_watch = [sas |-> 1, changed |-> FALSE]
    /\ password = 1
    /\ el_pc = "poll"
    /\ min_valid = 1
    /\ sas_expired = FALSE
    /\ token_expired = FALSE
    /\ token_rejected = FALSE
    /\ faults = 0
    /\ expiries = 0
    /\ last_error = [cause |-> "none", unseen |-> FALSE, cancelled |-> FALSE, sent |-> FALSE]
    /\ last_command = [kind |-> "none", stale |-> FALSE, result |-> "none"]

\* expect_clockskew has not been called.
InitSkewIdle ==
    /\ utc_now = 0
    /\ expiration = 0
    /\ skewed = <<>>

InitSnapIdle ==
    /\ twins_rows = {}
    /\ twins_seq = 0
    /\ snapshot_saved = [k \in {"desired", "reported"} |-> <<>>]
    /\ snapshot_loaded = <<>>

\* Nothing was sent on the change watch and nobody has awaited it.
InitWatchIdle ==
    /\ desired_properties_changed = [version |-> 0, unseen |-> FALSE]
    /\ changed_result = [called |-> FALSE, absent |-> FALSE, version |-> 0]

\* The middleware has just entered its loop: the first recv is in wait_new.
InitRecvIdle ==
    /\ recv_pc = "wait_new"
    /\ handled = <<>>
    /\ last_branch = "none"
    /\ drops = 0
    /\ load_drops = 0
    /\ run_base = 0

Init == InitClient /\ InitDiffIdle /\ InitStoreIdle /\ InitBuildIdle /\ InitSendIdle /\ InitDropIdle /\ InitInboxIdle /\ InitDrainIdle /\ InitCallbackIdle /\ InitCredIdle /\ InitSkewIdle /\ InitSnapIdle /\ InitWatchIdle /\ InitRecvIdle

(***************************************************************************)
(* Producer::add (the facade's enqueue calls): store the row, then publish *)
(* its id on the latest-id watch.  Callers on cloned clients interleave    *)
(* between the two steps.                                                  *)
(***************************************************************************)
AddStore ==
    /\ msg_seq < MaxMsgs
    /\ msg_seq' = msg_seq + 1
    /\ outbox' = outbox \cup {msg_seq + 1}
    /\ adding' = adding \cup {msg_seq + 1}
    /\ enq_during_wait' = (enq_during_wait \/ wait_pc \in {"count", "counted"})
    /\ UNCHANGED <<latest_msg_id, latest_unseen, loader_pc, last_id, messages,
                   message_queue, mqtt_requests, mqtt_pending, outgoing_pub,
                   last_pkid, connected, pending_d2c, state, state_unseen, errors,
                   was_disconnected, requests, rid_seq, wait_pc, cnt, run, handed_log,
                   published_log, confirmed, removed_log, stored_before, edge_open,
                   left_at_drop, twin_sent, chan_vars, twin_vars, diff_vars,
                   store_vars, build_vars, send_vars, drop_vars, inbox_vars,
                   drain_vars, callback_vars, cred_vars, skew_vars, snap_vars,
                   watch_vars, recv_vars>>

AddNotify ==
    \E id \in adding :
        /\ adding' = adding \ {id}
        /\ latest_msg_id' = id
        /\ latest_unseen' = TRUE
        /\ UNCHANGED <<outbox, msg_seq, loader_pc, last_id, messages, message_queue,
                       mqtt_requests, mqtt_pending, outgoing_pub, last_pkid,
                       connected, pending_d2c, state, state_unseen, errors,
                       was_disconnected, requests, rid_seq, wait_pc, cnt, run,
                       handed_log, published_log, confirmed, removed_log,
                       stored_before, enq_during_wait, edge_open, left_at_drop,
                       twin_sent, chan_vars, twin_vars, diff_vars, store_vars,
                       build_vars, send_vars, drop_vars, inbox_vars, drain_vars,
                       callback_vars, cred_vars, skew_vars, snap_vars, watch_vars,
                       recv_vars>>

(***************************************************************************)
(* The outbox loader task spawned by persistence::start.                   *)
(***************************************************************************)
\* One pass of the loop up to its first await on the channel or the watch:
\* query the rows after last_id; a non-empty result is forwarded, an empty
\* one makes the task read the watch and wait only if it equals last_id.
LoaderList ==
    /\ loader_pc = "list"
    /\ LET rows == ListMessagesAfter(outbox, last_id) IN
        IF rows # <<>>
            THEN /\ messages' = rows
                 /\ last_id' = rows[Len(rows)]
                 /\ loader_pc' = "forward"
                 /\ UNCHANGED latest_unseen
            ELSE /\ latest_unseen' = FALSE
                 /\ loader_pc' = IF latest_msg_id = last_id THEN "wait" ELSE "list"
                 /\ UNCHANGED <<messages, last_id>>
    /\ UNCHANGED <<outbox, msg_seq, adding, latest_msg_id, message_queue,
                   mqtt_requests, mqtt_pending, outgoing_pub, last_pkid, connected,
                   pending_d2c, state, state_unseen, errors, was_disconnected,
                   requests, rid_seq, wait_pc, cnt, run, handed_log, published_log,
                   confirmed, removed_log, stored_before, enq_during_wait, edge_open,
                   left_at_drop, twin_sent, chan_vars, twin_vars, diff_vars,
                   store_vars, build_vars, send_vars, drop_vars, inbox_vars,
                   drain_vars, callback_vars, cred_vars, skew_vars, snap_vars,
                   watch_vars, recv_vars>>

\* message_sender.send(msg) for the next row of the batch.
LoaderForward ==
    /\ loader_pc = "forward"
    /\ IF messages = <<>>
        THEN /\ loader_pc' = "list"
             /\ UNCHANGED <<messages, message_queue>>
        ELSE /\ Len(message_queue) < ChannelCap
             /\ message_queue' = Append(message_queue, Head(messages))
             /\ messages' = Tail(messages)
             /\ UNCHANGED loader_pc
    /\ UNCHANGED <<outbox, msg_seq, adding, latest_msg_id, latest_unseen, last_id,
                   mqtt_requests, mqtt_pending, outgoing_pub, last_pkid, connected,
                   pending_d2c, state, state_unseen, errors, was_disconnected,
                   requests, rid_seq, wait_pc, cnt, run, handed_log, published_log,
                   confirmed, removed_log, stored_before, enq_during_wait, edge_open,
                   left_at_drop, twin_sent, chan_vars, twin_vars, diff_vars,
                   store_vars, build_vars, send_vars, drop_vars, inbox_vars,
                   drain_vars, callback_vars, cred_vars, skew_vars, snap_vars,
                   watch_vars, recv_vars>>

\* latest_msg_id_receiver.changed() completes.
LoaderWake ==
    /\ loader_pc = "wait"
    /\ latest_unseen
    /\ latest_unseen' = FALSE
    /\ loader_pc' = "list"
    /\ UNCHANGED <<outbox, msg_seq, adding, latest_msg_id, last_id, messages,
                   message_queue, mqtt_requests, mqtt_pending, outgoing_pub,
                   last_pkid, connected, pending_d2c, state, state_unseen, errors,
                   was_disconnected, requests, rid_seq, wait_pc, cnt, run, handed_log,
                   published_log, confirmed, removed_log, stored_before,
                   enq_during_wait, edge_open, left_at_drop, twin_sent, chan_vars,
                   twin_vars, diff_vars, store_vars, build_vars, send_vars, drop_vars,
                   inbox_vars, drain_vars, callback_vars, cred_vars, skew_vars,
                   snap_vars, watch_vars, recv_vars>>

(***************************************************************************)
(* Sender::process_saved / publish_iothub: take the next message from the  *)
(* channel and hand it to the MQTT client (publish waits for room).        *)
(***************************************************************************)
SenderPublish ==
    /\ message_queue # <<>>
    /\ Len(mqtt_requests) < RequestCap
    /\ LET id == Head(message_queue) IN
        /\ mqtt_requests' = Append(mqtt_requests,
                                   [topic |-> EVENTS_TOPIC, id |-> id, pkid |-> 0])
        /\ handed_log' = Append(handed_log, id)
    /\ message_queue' = Tail(message_queue)
    /\ UNCHANGED <<outbox, msg_seq, adding, latest_msg_id, latest_unseen, loader_pc,
                   last_id, messages, mqtt_pending, outgoing_pub, last_pkid,
                   connected, pending_d2c, state, state_unseen, errors,
                   was_disconnected, requests, rid_seq, wait_pc, cnt, run,
                   published_log, confirmed, removed_log, stored_before,
                   enq_during_wait, edge_open, left_at_drop, twin_sent, chan_vars,
                   twin_vars, diff_vars, store_vars, build_vars, send_vars, drop_vars,
                   inbox_vars, drain_vars, callback_vars, cred_vars, skew_vars,
                   snap_vars, watch_vars, recv_vars>>

(***************************************************************************)
(* The MQTT event loop: EventLoop::run polls the client and handles each   *)
(* event.                                                                  *)
(***************************************************************************)
\* EventLoop::process_outgoing_message, Outgoing::Publish(pkid, topic)
ProcessOutgoingPublish(pending, pub) ==
    IF IsD2CTopic(pub.topic) THEN pending \cup {pub.pkid} ELSE pending

\* The client sends its next publish (a retransmission first) while fewer than
\* Inflight publishes are unacknowledged, and reports Outgoing::Publish.
OutgoingPublish ==
    /\ connected
    /\ Len(outgoing_pub) < Inflight
    /\ mqtt_pending # <<>> \/ mqtt_requests # <<>>
    /\ LET retransmit == mqtt_pending # <<>>
           req == IF retransmit THEN Head(mqtt_pending) ELSE Head(mqtt_requests)
           pkid == IF req.pkid = 0 THEN NextPkid(last_pkid) ELSE req.pkid
           pub == [req EXCEPT !.pkid = pkid]
       IN
        /\ mqtt_pending' = IF retransmit THEN Tail(mqtt_pending) ELSE mqtt_pending
        /\ mqtt_requests' = IF retransmit THEN mqtt_requests ELSE Tail(mqtt_requests)
        /\ last_pkid' = IF req.pkid = 0 THEN AfterPkid(pkid) ELSE last_pkid
        /\ outgoing_pub' = Append(outgoing_pub, pub)
        /\ pending_d2c' = ProcessOutgoingPublish(pending_d2c, pub)
        /\ published_log' = IF IsD2CTopic(pub.topic)
                                THEN Append(published_log, pub.id)
                                ELSE published_log
        /\ twin_sent' = IF IsD2CTopic(pub.topic) THEN twin_sent
                                                 ELSE twin_sent \cup {pub.id}
    /\ UNCHANGED <<outbox, msg_seq, adding, latest_msg_id, latest_unseen, loader_pc,
                   last_id, messages, message_queue, connected, state, state_unseen,
                   errors, was_disconnected, requests, rid_seq, wait_pc, cnt, run,
                   handed_log, confirmed, removed_log, stored_before, enq_during_wait,
                   edge_open, left_at_drop, chan_vars, twin_vars, diff_vars,
                   store_vars, build_vars, send_vars, drop_vars, inbox_vars,
                   drain_vars, callback_vars, cred_vars, skew_vars, snap_vars,
                   watch_vars, recv_vars>>

\* EventLoop::process_incoming_message, Packet::PubAck: the broker acknowledges
\* the oldest unacknowledged publish.
IncomingPubAck ==
    /\ connected
    /\ outgoing_pub # <<>>
    /\ LET pub == Head(outgoing_pub) IN
        /\ outgoing_pub' = Tail(outgoing_pub)
        /\ confirmed' = IF IsD2CTopic(pub.topic) THEN confirmed \cup {pub.id}
                                                 ELSE confirmed
        /\ IF pub.pkid \in pending_d2c
            THEN /\ outbox' = RemoveOldestMessage(outbox)
                 /\ removed_log' = IF outbox = {} THEN removed_log
                                                  ELSE Append(removed_log, Min(outbox))
            ELSE UNCHANGED <<outbox, removed_log>>
    /\ state' = "Ready"
    /\ state_unseen' = TRUE
    /\ UNCHANGED <<msg_seq, adding, latest_msg_id, latest_unseen, loader_pc, last_id,
                   messages, message_queue, mqtt_requests, mqtt_pending, last_pkid,
                   connected, pending_d2c, errors, was_disconnected, requests,
                   rid_seq, wait_pc, cnt, run, handed_log, published_log,
                   stored_before, enq_during_wait, edge_open, left_at_drop, twin_sent,
                   chan_vars, twin_vars, diff_vars, store_vars, build_vars, send_vars,
                   drop_vars, inbox_vars, drain_vars, callback_vars, cred_vars,
                   skew_vars, snap_vars, watch_vars, recv_vars>>

\* EventLoop::process_incoming_message, the ConnAck of a reconnect.
IncomingConnAck ==
    /\ ~connected
    /\ connected' = TRUE
    /\ state' = "Ready"
    /\ state_unseen' = TRUE
    /\ edge_open' = (edge_open \/ state = "ConnectionError")
    /\ UNCHANGED <<outbox, msg_seq, adding, latest_msg_id, latest_unseen, loader_pc,
                   last_id, messages, message_queue, mqtt_requests, mqtt_pending,
                   outgoing_pub, last_pkid, pending_d2c, errors, was_disconnected,
                   requests, rid_seq, wait_pc, cnt, run, handed_log, published_log,
                   confirmed, removed_log, stored_before, enq_during_wait,
                   left_at_drop, twin_sent, chan_vars, twin_vars, diff_vars,
                   store_vars, build_vars, send_vars, drop_vars, inbox_vars,
                   drain_vars, callback_vars, cred_vars, skew_vars, snap_vars,
                   watch_vars, recv_vars>>

\* EventLoop::process_incoming_message, any other packet (PingResp, ...).
IncomingOther ==
    /\ connected
    /\ state' = "Ready"
    /\ state_unseen' = TRUE
    /\ UNCHANGED <<outbox, msg_seq, adding, latest_msg_id, latest_unseen, loader_pc,
                   last_id, messages, message_queue, mqtt_requests, mqtt_pending,
                   outgoing_pub, last_pkid, connected, pending_d2c, errors,
                   was_disconnected, requests, rid_seq, wait_pc, cnt, run, handed_log,
                   published_log, confirmed, removed_log, stored_before,
                   enq_during_wait, edge_open, left_at_drop, twin_sent, chan_vars,
                   twin_vars, diff_vars, store_vars, build_vars, send_vars, drop_vars,
                   inbox_vars, drain_vars, callback_vars, cred_vars, skew_vars,
                   snap_vars, watch_vars, recv_vars>>

\* EventLoop::process_notification, Err(e): the session is lost; the client
\* keeps its unacknowledged publishes for retransmission.
ConnectionError ==
    /\ errors < MaxErrors
    /\ errors' = errors + 1
    /\ state' = "ConnectionError"
    /\ state_unseen' = TRUE
    /\ connected' = FALSE
    /\ mqtt_pending' = mqtt_pending \o outgoing_pub
    /\ outgoing_pub' = <<>>
    /\ UNCHANGED <<outbox, msg_seq, adding, latest_msg_id, latest_unseen, loader_pc,
                   last_id, messages, message_queue, mqtt_requests, last_pkid,
                   pending_d2c, was_disconnected, requests, rid_seq, wait_pc, cnt,
                   run, handed_log, published_log, confirmed, removed_log,
                   stored_before, enq_during_wait, edge_open, left_at_drop, twin_sent,
                   chan_vars, twin_vars, diff_vars, store_vars, build_vars, send_vars,
                   drop_vars, inbox_vars, drain_vars, callback_vars, cred_vars,
                   skew_vars, snap_vars, watch_vars, recv_vars>>

(***************************************************************************)
(* TwinsMiddleware::process, the connection-state branch:                  *)
(* receive_state_update, then handle_connection_state_change (which calls  *)
(* get_twins on Ready after a disconnect).                                 *)
(***************************************************************************)
HandleConnectionStateChange ==
    /\ state_unseen
    /\ state_unseen' = FALSE
    /\ IF state = "ConnectionError"
        THEN /\ was_disconnected' = TRUE
             /\ UNCHANGED <<requests, rid_seq, mqtt_requests, edge_open>>
        ELSE IF ~was_disconnected
            THEN UNCHANGED <<was_disconnected, requests, rid_seq, mqtt_requests,
                             edge_open>>
            ELSE /\ rid_seq < MaxRid
                 /\ LET g == GetTwins(requests, rid_seq, mqtt_requests) IN
                    /\ rid_seq' = g.rid_seq
                    /\ requests' = g.requests
                    /\ mqtt_requests' = g.mqtt_requests
                    /\ was_disconnected' = ~g.ok
                    /\ edge_open' = (edge_open /\ ~g.ok)
    /\ UNCHANGED <<outbox, msg_seq, adding, latest_msg_id, latest_unseen, loader_pc,
                   last_id, messages, message_queue, mqtt_pending, outgoing_pub,
                   last_pkid, connected, pending_d2c, state, errors, wait_pc, cnt,
                   run, handed_log, published_log, confirmed, removed_log,
                   stored_before, enq_during_wait, left_at_drop, twin_sent, chan_vars,
                   twin_vars, diff_vars, store_vars, build_vars, send_vars, drop_vars,
                   inbox_vars, drain_vars, callback_vars, cred_vars, skew_vars,
                   snap_vars, watch_vars, recv_vars>>

(***************************************************************************)
(* BaseConnection::wait_enqueued_messages_sent.                            *)
(***************************************************************************)
WaitCall ==
    /\ wait_pc \in {"idle", "returned", "failed"}
    /\ wait_pc' = "count"
    /\ stored_before' = 1..msg_seq
    /\ enq_during_wait' = FALSE
    /\ UNCHANGED <<outbox, msg_seq, adding, latest_msg_id, latest_unseen, loader_pc,
                   last_id, messages, message_queue, mqtt_requests, mqtt_pending,
                   outgoing_pub, last_pkid, connected, pending_d2c, state,
                   state_unseen, errors, was_disconnected, requests, rid_seq, cnt,
                   run, handed_log, published_log, confirmed, removed_log, edge_open,
                   left_at_drop, twin_sent, chan_vars, twin_vars, diff_vars,
                   store_vars, build_vars, send_vars, drop_vars, inbox_vars,
                   drain_vars, callback_vars, cred_vars, skew_vars, snap_vars,
                   watch_vars, recv_vars>>

\* let cnt = self.d2c_producer.count().await?
WaitCount ==
    /\ wait_pc = "count"
    /\ cnt' = MessageCount(outbox)
    /\ wait_pc' = "counted"
    /\ UNCHANGED <<outbox, msg_seq, adding, latest_msg_id, latest_unseen, loader_pc,
                   last_id, messages, message_queue, mqtt_requests, mqtt_pending,
                   outgoing_pub, last_pkid, connected, pending_d2c, state,
                   state_unseen, errors, was_disconnected, requests, rid_seq, run,
                   handed_log, published_log, confirmed, removed_log, stored_before,
                   enq_during_wait, edge_open, left_at_drop, twin_sent, chan_vars,
                   twin_vars, diff_vars, store_vars, build_vars, send_vars, drop_vars,
                   inbox_vars, drain_vars, callback_vars, cred_vars, skew_vars,
                   snap_vars, watch_vars, recv_vars>>

\* if cnt == 0 { break }; check_signals()?; sleep(200 ms)
WaitDecide ==
    /\ wait_pc = "counted"
    /\ \/ cnt = 0 /\ wait_pc' = "returned"
       \/ cnt # 0 /\ wait_pc' \in {"count", "failed"}
    /\ UNCHANGED <<outbox, msg_seq, adding, latest_msg_id, latest_unseen, loader_pc,
                   last_id, messages, message_queue, mqtt_requests, mqtt_pending,
                   outgoing_pub, last_pkid, connected, pending_d2c, state,
                   state_unseen, errors, was_disconnected, requests, rid_seq, cnt,
                   run, handed_log, published_log, confirmed, removed_log,
                   stored_before, enq_during_wait, edge_open, left_at_drop, twin_sent,
                   chan_vars, twin_vars, diff_vars, store_vars, build_vars, send_vars,
                   drop_vars, inbox_vars, drain_vars, callback_vars, cred_vars,
                   skew_vars, snap_vars, watch_vars, recv_vars>>

(***************************************************************************)
(* The client is dropped (no call in progress) and a new client is built   *)
(* on the same database file: the rows stay, everything in memory is new.  *)
(***************************************************************************)
Restart ==
    /\ run < MaxRuns
    /\ adding = {}
    /\ wait_pc \in {"idle", "returned", "failed"}
    /\ run' = run + 1
    /\ latest_msg_id' = NoMsgId
    /\ latest_unseen' = FALSE
    /\ loader_pc' = "list"
    /\ last_id' = NoMsgId
    /\ messages' = <<>>
    /\ message_queue' = <<>>
    /\ mqtt_requests' = <<>>
    /\ mqtt_pending' = <<>>
    /\ outgoing_pub' = <<>>
    /\ last_pkid' = 0
    /\ connected' = TRUE
    /\ pending_d2c' = {}
    /\ state' = "Ready"
    /\ state_unseen' = FALSE
    /\ was_disconnected' = FALSE
    /\ requests' = {}
    /\ wait_pc' = "idle"
    /\ cnt' = 0
    /\ handed_log' = <<>>
    /\ published_log' = <<>>
    /\ edge_open' = FALSE
    /\ left_at_drop' = outbox
    /\ twin_sent' = {}
    /\ UNCHANGED <<outbox, msg_seq, adding, errors, rid_seq, confirmed, removed_log,
                   stored_before, enq_during_wait, chan_vars, twin_vars, diff_vars,
                   store_vars, build_vars, send_vars, drop_vars, inbox_vars,
                   drain_vars, callback_vars, cred_vars, skew_vars, snap_vars,
                   watch_vars, recv_vars>>

(***************************************************************************)
(* The cloud-to-device inbox: CloudToDeviceHandler stores what the broker  *)
(* delivers; user code consumes through process_c2d or get_c2d.            *)
(***************************************************************************)
\* CloudToDeviceHandler::handle -> Sender::send: store the row and update
\* the watch while holding the connection.
C2dHandle ==
    /\ c2d_seq < MaxC2d
    /\ c2d_seq' = c2d_seq + 1
    /\ c2d_rows' = c2d_rows \cup {c2d_seq + 1}
    /\ last_saved' = SendReplace(last_saved, c2d_seq + 1)
    /\ UNCHANGED <<last_received, consumer_lock, c2d_handler_registered, proc_pc,
                   proc_msg, get_pc, guards, recv_log, handed_ever, ack_log,
                   left_unacked, ack_failed, chan_run, session_vars, twin_vars,
                   diff_vars, store_vars, build_vars, send_vars, drop_vars,
                   inbox_vars, drain_vars, callback_vars, cred_vars, skew_vars,
                   snap_vars, watch_vars, recv_vars>>

\* BaseConnection::process_c2d: register the handler and spawn its thread.
ProcessC2d ==
    /\ ~c2d_handler_registered
    /\ c2d_handler_registered' = TRUE
    /\ proc_pc' = "lock"
    /\ UNCHANGED <<c2d_rows, c2d_seq, last_saved, last_received, consumer_lock,
                   proc_msg, get_pc, guards, recv_log, handed_ever, ack_log,
                   left_unacked, ack_failed, chan_run, session_vars, twin_vars,
                   diff_vars, store_vars, build_vars, send_vars, drop_vars,
                   inbox_vars, drain_vars, callback_vars, cred_vars, skew_vars,
                   snap_vars, watch_vars, recv_vars>>

\* The thread takes the receiver's lock and never releases it.
ProcLock ==
    /\ proc_pc = "lock"
    /\ consumer_lock = "free"
    /\ consumer_lock' = "proc"
    /\ proc_pc' = "recv"
    /\ UNCHANGED <<c2d_rows, c2d_seq, last_saved, last_received,
                   c2d_handler_registered, proc_msg, get_pc, guards, recv_log,
                   handed_ever, ack_log, left_unacked, ack_failed, chan_run,
                   session_vars, twin_vars, diff_vars, store_vars, build_vars,
                   send_vars, drop_vars, inbox_vars, drain_vars, callback_vars,
                   cred_vars, skew_vars, snap_vars, watch_vars, recv_vars>>

\* consumer.recv(&None) returns a message and the callback is called with it.
ProcRecv ==
    /\ proc_pc = "recv"
    /\ ~MustWait(last_saved, last_received)
    /\ LET id == Load(c2d_rows, last_received) IN
        IF id = None
            THEN UNCHANGED <<last_received, proc_msg, proc_pc, recv_log, handed_ever,
                             ack_failed>>
            ELSE /\ last_received' = Received(last_received, id)
                 /\ proc_msg' = id
                 /\ proc_pc' = "ack"
                 /\ recv_log' = Append(recv_log, id)
                 /\ handed_ever' = handed_ever \cup {id}
                 /\ ack_failed' = None
    /\ UNCHANGED <<c2d_rows, c2d_seq, last_saved, consumer_lock,
                   c2d_handler_registered, get_pc, guards, ack_log, left_unacked,
                   chan_run, session_vars, twin_vars, diff_vars, store_vars,
                   build_vars, send_vars, drop_vars, inbox_vars, drain_vars,
                   callback_vars, cred_vars, skew_vars, snap_vars, watch_vars,
                   recv_vars>>

\* The callback returned: consumer.ack(&msg), which may fail on the database.
ProcAck ==
    /\ proc_pc = "ack"
    /\ proc_pc' = "recv"
    /\ proc_msg' = None
    /\ \/ /\ c2d_rows' = Remove(c2d_rows, proc_msg)
          /\ ack_log' = Append(ack_log, proc_msg)
          /\ ack_failed' = None
       \/ /\ UNCHANGED <<c2d_rows, ack_log>>
          /\ ack_failed' = proc_msg
    /\ UNCHANGED <<c2d_seq, last_saved, last_received, consumer_lock,
                   c2d_handler_registered, get_pc, guards, recv_log, handed_ever,
                   left_unacked, chan_run, session_vars, twin_vars, diff_vars,
                   store_vars, build_vars, send_vars, drop_vars, inbox_vars,
                   drain_vars, callback_vars, cred_vars, skew_vars, snap_vars,
                   watch_vars, recv_vars>>

\* BaseConnection::get_c2d: try_lock on the receiver, then recv with a timeout.
GetC2dCall ==
    /\ get_pc = "idle"
    /\ consumer_lock = "free"
    /\ consumer_lock' = "get"
    /\ get_pc' = "recv"
    /\ UNCHANGED <<c2d_rows, c2d_seq, last_saved, last_received,
                   c2d_handler_registered, proc_pc, proc_msg, guards, recv_log,
                   handed_ever, ack_log, left_unacked, ack_failed, chan_run,
                   session_vars, twin_vars, diff_vars, store_vars, build_vars,
                   send_vars, drop_vars, inbox_vars, drain_vars, callback_vars,
                   cred_vars, skew_vars, snap_vars, watch_vars, recv_vars>>

\* recv returned a message: get_c2d returns it inside a guard.
GetC2dRecv ==
    /\ get_pc = "recv"
    /\ ~MustWait(last_saved, last_received)
    /\ get_pc' = "idle"
    /\ consumer_lock' = "free"
    /\ LET id == Load(c2d_rows, last_received) IN
        IF id = None
            THEN UNCHANGED <<last_received, guards, recv_log, handed_ever>>
            ELSE /\ last_received' = Received(last_received, id)
                 /\ guards' = Append(guards, id)
                 /\ recv_log' = Append(recv_log, id)
                 /\ handed_ever' = handed_ever \cup {id}
    /\ UNCHANGED <<c2d_rows, c2d_seq, last_saved, c2d_handler_registered, proc_pc,
                   proc_msg, ack_log, left_unacked, ack_failed, chan_run,
                   session_vars, twin_vars, diff_vars, store_vars, build_vars,
                   send_vars, drop_vars, inbox_vars, drain_vars, callback_vars,
                   cred_vars, skew_vars, snap_vars, watch_vars, recv_vars>>

\* The timeout cancelled the wait: get_c2d returns an error.
GetC2dTimeout ==
    /\ get_pc = "recv"
    /\ MustWait(last_saved, last_received)
    /\ get_pc' = "idle"
    /\ consumer_lock' = "free"
    /\ UNCHANGED <<c2d_rows, c2d_seq, last_saved, last_received,
                   c2d_handler_registered, proc_pc, proc_msg, guards, recv_log,
                   handed_ever, ack_log, left_unacked, ack_failed, chan_run,
                   session_vars, twin_vars, diff_vars, store_vars, build_vars,
                   send_vars, drop_vars, inbox_vars, drain_vars, callback_vars,
                   cred_vars, skew_vars, snap_vars, watch_vars, recv_vars>>

\* CloudToDeviceMessageGuard::drop: lock the receiver and ack the message
\* (the result of the ack is only logged).
GuardDrop ==
    /\ consumer_lock = "free"
    /\ \E i \in DOMAIN guards :
        /\ guards' = SubSeq(guards, 1, i - 1) \o SubSeq(guards, i + 1, Len(guards))
        /\ \/ /\ c2d_rows' = Remove(c2d_rows, guards[i])
              /\ ack_log' = Append(ack_log, guards[i])
           \/ UNCHANGED <<c2d_rows, ack_log>>
    /\ UNCHANGED <<c2d_seq, last_saved, last_received, consumer_lock,
                   c2d_handler_registered, proc_pc, proc_msg, get_pc, recv_log,
                   handed_ever, left_unacked, ack_failed, chan_run, session_vars,
                   twin_vars, diff_vars, store_vars, build_vars, send_vars, drop_vars,
                   inbox_vars, drain_vars, callback_vars, cred_vars, skew_vars,
                   snap_vars, watch_vars, recv_vars>>

\* The process ends and a new one opens the same database file: the table
\* stays, the channel and its consumers are new.
ChanRestart ==
    /\ chan_run < MaxRuns
    /\ chan_run' = chan_run + 1
    /\ left_unacked' = c2d_rows
    /\ ack_failed' = None
    /\ last_saved' = None
    /\ last_received' = None
    /\ consumer_lock' = "free"
    /\ c2d_handler_registered' = FALSE
    /\ proc_pc' = "off"
    /\ proc_msg' = None
    /\ get_pc' = "idle"
    /\ guards' = <<>>
    /\ recv_log' = <<>>
    /\ UNCHANGED <<c2d_rows, c2d_seq, handed_ever, ack_log, session_vars, twin_vars,
                   diff_vars, store_vars, build_vars, send_vars, drop_vars,
                   inbox_vars, drain_vars, callback_vars, cred_vars, skew_vars,
                   snap_vars, watch_vars, recv_vars>>

NextChan ==
    \/ C2dHandle
    \/ ProcessC2d
    \/ ProcLock
    \/ ProcRecv
    \/ ProcAck
    \/ GetC2dCall
    \/ GetC2dRecv
    \/ GetC2dTimeout
    \/ GuardDrop
    \/ ChanRestart

\* The cloud-to-device inbox over its durable channel.
SpecChan == Init /\ [][NextChan]_vars

(***************************************************************************)
(* Properties of the durable channel and the cloud-to-device inbox.        *)
(***************************************************************************)
\* C5: within one run, successive recv calls return strictly increasing ids,
\* so each stored record at most once.
C5_RecvStrictlyIncreasing == StrictlyAscending(recv_log)

\* Three records were received in one run, interleaved with sends and with an
\* ack of an earlier one.
C5_Witness ==
    /\ Len(recv_log) = 3
    /\ ack_log # <<>>
    /\ guards # <<>>

\* C6: after a restart a record left in the table and not yet delivered in
\* this run can be received without a new send: recv does not have to wait.
C6_RedeliveredWithoutSend ==
    (chan_run > 0 /\ Load(c2d_rows, last_received) # None)
        => ~MustWait(last_saved, last_received)

HasGetTwins(queue) == \E i \in DOMAIN queue : queue[i].topic = TWIN_GET_TOPIC

(***************************************************************************)
(* The twin middleware and the reconciler (DeviceTwin).                    *)
(***************************************************************************)
\* DeviceTwin::set_desired_properties(version, properties)
SetDesiredProperties(twin, updates, stored, log, version) ==
    IF IgnoreOlder(version, twin)
        THEN [ok |-> TRUE, desired |-> twin, updates |-> updates, stored |-> stored,
              log |-> log]
        ELSE LET d == DrainUpdates(Snapshot(version), updates) IN
            IF d.ok
                THEN [ok |-> TRUE, desired |-> d.twin, updates |-> d.updates,
                      stored |-> d.twin, log |-> Append(log, d.twin.version)]
                ELSE [ok |-> FALSE, desired |-> d.twin, updates |-> d.updates,
                      stored |-> stored, log |-> log]

\* DeviceTwin::set_reported_properties(version, properties)
SetReportedProperties(twin, version) ==
    IF IgnoreOlder(version, twin) THEN twin ELSE Snapshot(version)

\* TwinsMiddleware::process, the get_twins branch: the client asked for the
\* full twins (connect does so once the middleware runs).
RequestGetTwins ==
    /\ rid_seq < MaxRid
    /\ LET g == GetTwins(requests, rid_seq, mqtt_requests) IN
        /\ rid_seq' = g.rid_seq
        /\ requests' = g.requests
        /\ mqtt_requests' = g.mqtt_requests
    /\ UNCHANGED <<outbox, msg_seq, adding, latest_msg_id, latest_unseen, loader_pc,
                   last_id, messages, message_queue, mqtt_pending, outgoing_pub,
                   last_pkid, connected, pending_d2c, state, state_unseen, errors,
                   was_disconnected, wait_pc, cnt, run, handed_log, published_log,
                   confirmed, removed_log, stored_before, enq_during_wait, edge_open,
                   left_at_drop, twin_sent, chan_vars, twin_vars, diff_vars,
                   store_vars, build_vars, send_vars, drop_vars, inbox_vars,
                   drain_vars, callback_vars, cred_vars, skew_vars, snap_vars,
                   watch_vars, recv_vars>>

\* TwinsMiddleware::update_desired_properties_handler for a patch of the
\* given version: DeviceTwin::update_desired_properties and, on a
\* PatchVersionMismatch, get_twins.
ReceiveDesiredPatch(version) ==
    IF ~desired.some
        THEN /\ Len(desired_properties_updates) < MaxBuf
             /\ desired_properties_updates' = Append(desired_properties_updates, version)
             /\ last_patch' = [gap |-> FALSE, applied |-> FALSE, requested |-> FALSE]
             /\ UNCHANGED <<desired, reported, stored_desired, stored_reported,
                            notify_log, twin_run, desired_initialized,
                            reported_initialized, ready_pc, get_desired_result,
                            reported_updates, reported_seq, reported_last_saved,
                            reported_last_received, session_vars, chan_vars,
                            diff_vars, store_vars, build_vars, send_vars, drop_vars,
                            inbox_vars, drain_vars, callback_vars, cred_vars,
                            skew_vars, snap_vars, watch_vars, recv_vars>>
        ELSE IF IsNextVersion(version, desired)
            THEN /\ desired' = Merge(desired, version)
                 /\ stored_desired' = Merge(desired, version)
                 /\ notify_log' = Append(notify_log, version)
                 /\ desired_initialized' = TRUE
                 /\ last_patch' = [gap |-> FALSE, applied |-> TRUE, requested |-> FALSE]
                 /\ UNCHANGED <<reported, desired_properties_updates, stored_reported,
                                twin_run, reported_initialized, ready_pc,
                                get_desired_result, reported_updates, reported_seq,
                                reported_last_saved, reported_last_received,
                                session_vars, chan_vars, diff_vars, store_vars,
                                build_vars, send_vars, drop_vars, inbox_vars,
                                drain_vars, callback_vars, cred_vars, skew_vars,
                                snap_vars, watch_vars, recv_vars>>
            ELSE /\ rid_seq < MaxRid
                 /\ LET g == GetTwins(requests, rid_seq, mqtt_requests) IN
                    /\ rid_seq' = g.rid_seq
                    /\ requests' = g.requests
                    /\ mqtt_requests' = g.mqtt_requests
                    /\ last_patch' = [gap |-> version >= desired.version + 2,
                                      applied |-> FALSE,
                                      requested |-> g.ok \/ HasGetTwins(mqtt_requests)]
                 /\ UNCHANGED <<outbox, msg_seq, adding, latest_msg_id, latest_unseen,
                                loader_pc, last_id, messages, message_queue,
                                mqtt_pending, outgoing_pub, last_pkid, connected,
                                pending_d2c, state, state_unseen, errors,
                                was_disconnected, wait_pc, cnt, run, handed_log,
                                published_log, confirmed, removed_log, stored_before,
                                enq_during_wait, edge_open, left_at_drop, twin_sent,
                                desired, reported, desired_properties_updates,
                                stored_desired, stored_reported, notify_log, twin_run,
                                desired_initialized, reported_initialized, ready_pc,
                                get_desired_result, reported_updates, reported_seq,
                                reported_last_saved, reported_last_received,
                                chan_vars, diff_vars, store_vars, build_vars,
                                send_vars, drop_vars, inbox_vars, drain_vars,
                                callback_vars, cred_vars, skew_vars, snap_vars,
                                watch_vars, recv_vars>>

DesiredPatchArrives == \E version \in 1..MaxVersion : ReceiveDesiredPatch(version)

\* IotHubTwinsClient::set_reported_properties / patch_reported_properties
\* (the facade's update_reported_properties and patch_reported_properties):
\* Sender::send stores the update and publishes its id on the watch.
EnqueueReportedUpdate ==
    /\ reported_seq < MaxUpdates
    /\ reported_seq' = reported_seq + 1
    /\ reported_updates' = reported_updates \cup {reported_seq + 1}
    /\ reported_last_saved' = SendReplace(reported_last_saved, reported_seq + 1)
    /\ UNCHANGED <<desired, reported, desired_properties_updates, stored_desired,
                   stored_reported, notify_log, last_patch, twin_run,
                   desired_initialized, reported_initialized, ready_pc,
                   get_desired_result, reported_last_received, session_vars,
                   chan_vars, diff_vars, store_vars, build_vars, send_vars, drop_vars,
                   inbox_vars, drain_vars, callback_vars, cred_vars, skew_vars,
                   snap_vars, watch_vars, recv_vars>>

\* TwinsMiddleware::process, the reported_properties_updates.recv branch, and
\* update_reported_properties for the update received: register the
\* request, try_publish the patch, then update the local copy (requesting
\* the full twins if that fails).  A failed try_publish ends the handler.
UpdateReportedProperties ==
    /\ rid_seq < MaxRid
    /\ ~MustWait(reported_last_saved, reported_last_received)
    /\ Load(reported_updates, reported_last_received) # None
    /\ LET update == Load(reported_updates, reported_last_received)
           rid == rid_seq + 1
           reqs == requests \cup {[rid |-> rid, type |-> "PatchReportedProperties",
                                   update |-> update]}
           p == TryPublish(mqtt_requests,
                           [topic |-> TWIN_PATCH_TOPIC, id |-> rid, pkid |-> 0])
       IN
        /\ reported_last_received' = Received(reported_last_received, update)
        /\ IF ~p.ok
            THEN /\ rid_seq' = rid
                 /\ requests' = reqs
                 /\ UNCHANGED <<outbox, msg_seq, adding, latest_msg_id, latest_unseen,
                                loader_pc, last_id, messages, message_queue,
                                mqtt_requests, mqtt_pending, outgoing_pub, last_pkid,
                                connected, pending_d2c, state, state_unseen, errors,
                                was_disconnected, wait_pc, cnt, run, handed_log,
                                published_log, confirmed, removed_log, stored_before,
                                enq_during_wait, edge_open, left_at_drop, twin_sent,
                                desired, reported, desired_properties_updates,
                                stored_desired, stored_reported, notify_log,
                                last_patch, twin_run, desired_initialized,
                                reported_initialized, ready_pc, get_desired_result,
                                reported_updates, reported_seq, reported_last_saved,
                                chan_vars, diff_vars, store_vars, build_vars,
                                send_vars, drop_vars, inbox_vars, drain_vars,
                                callback_vars, cred_vars, skew_vars, snap_vars,
                                watch_vars, recv_vars>>
            ELSE IF reported.some
                THEN /\ rid_seq' = rid
                     /\ requests' = reqs
                     /\ mqtt_requests' = p.queue
                     /\ reported' = Merge(reported, reported.version + 1)
                     /\ stored_reported' = Merge(reported, reported.version + 1)
                     /\ reported_initialized' = TRUE
                     /\ UNCHANGED <<outbox, msg_seq, adding, latest_msg_id,
                                    latest_unseen, loader_pc, last_id, messages,
                                    message_queue, mqtt_pending, outgoing_pub,
                                    last_pkid, connected, pending_d2c, state,
                                    state_unseen, errors, was_disconnected, wait_pc,
                                    cnt, run, handed_log, published_log, confirmed,
                                    removed_log, stored_before, enq_during_wait,
                                    edge_open, left_at_drop, twin_sent, desired,
                                    desired_properties_updates, stored_desired,
                                    notify_log, last_patch, twin_run,
                                    desired_initialized, ready_pc, get_desired_result,
                                    reported_updates, reported_seq,
                                    reported_last_saved, chan_vars, diff_vars,
                                    store_vars, build_vars, send_vars, drop_vars,
                                    inbox_vars, drain_vars, callback_vars, cred_vars,
                                    skew_vars, snap_vars, watch_vars, recv_vars>>
                ELSE /\ rid + 1 <= MaxRid
                     /\ LET g == GetTwins(reqs, rid, p.queue) IN
                        /\ rid_seq' = g.rid_seq
                        /\ requests' = g.requests
                        /\ mqtt_requests' = g.mqtt_requests
                     /\ UNCHANGED <<outbox, msg_seq, adding, latest_msg_id,
                                    latest_unseen, loader_pc, last_id, messages,
                                    message_queue, mqtt_pending, outgoing_pub,
                                    last_pkid, connected, pending_d2c, state,
                                    state_unseen, errors, was_disconnected, wait_pc,
                                    cnt, run, handed_log, published_log, confirmed,
                                    removed_log, stored_before, enq_during_wait,
                                    edge_open, left_at_drop, twin_sent, desired,
                                    reported, desired_properties_updates,
                                    stored_desired, stored_reported, notify_log,
                                    last_patch, twin_run, desired_initialized,
                                    reported_initialized, ready_pc,
                                    get_desired_result, reported_updates,
                                    reported_seq, reported_last_saved, chan_vars,
                                    diff_vars, store_vars, build_vars, send_vars,
                                    drop_vars, inbox_vars, drain_vars, callback_vars,
                                    cred_vars, skew_vars, snap_vars, watch_vars,
                                    recv_vars>>

\* A table that gives up every entry, whatever the request id.
remove_Any(table, rid) == table

\* HashMap::remove(&request_id) on the request table: the entries taken out
\* (one, or none for an unknown id).
remove(table, rid) == {r \in table : r.rid = rid}

\* TwinsMiddleware::handle_response for the response to a transmitted
\* request: a GetTwins response carries the server's twins and set_twins
\* installs desired, then reported; a patch response acks the update, which
\* removes its row.
handle_response(rid, dv, rv) ==
        /\ twin_sent' = twin_sent \ {rid}
        /\ requests' = requests \ remove(requests, rid)
        /\ reported_updates' =
                reported_updates \ {r.update : r \in {q \in remove(requests, rid) :
                    q.type = "PatchReportedProperties"}}
        /\ IF \E r \in remove(requests, rid) : r.type = "GetTwins"
            THEN LET d == SetDesiredProperties(desired, desired_properties_updates,
                                               stored_desired, notify_log, dv) IN
                /\ desired' = d.desired
                /\ desired_properties_updates' = d.updates
                /\ stored_desired' = d.stored
                /\ notify_log' = d.log
                /\ reported' = IF d.ok THEN SetReportedProperties(reported, rv)
                                       ELSE reported
                /\ stored_reported' =
                        IF d.ok /\ ~IgnoreOlder(rv, reported)
                            THEN SetReportedProperties(reported, rv)
                            ELSE stored_reported
                /\ desired_initialized' =
                        (desired_initialized \/ (d.ok /\ ~IgnoreOlder(dv, desired)))
                /\ reported_initialized' =
                        (reported_initialized \/ (d.ok /\ ~IgnoreOlder(rv, reported)))
            ELSE UNCHANGED <<desired, desired_properties_updates, stored_desired,
                             notify_log, reported, stored_reported,
                             desired_initialized, reported_initialized>>
        /\ UNCHANGED <<outbox, msg_seq, adding, latest_msg_id, latest_unseen,
                       loader_pc, last_id, messages, message_queue, mqtt_requests,
                       mqtt_pending, outgoing_pub, last_pkid, connected, pending_d2c,
                       state, state_unseen, errors, was_disconnected, rid_seq,
                       wait_pc, cnt, run, handed_log, published_log, confirmed,
                       removed_log, stored_before, enq_during_wait, edge_open,
                       left_at_drop, last_patch, twin_run, ready_pc,
                       get_desired_result, reported_seq, reported_last_saved,
                       reported_last_received, chan_vars, diff_vars, store_vars,
                       build_vars, send_vars, drop_vars, inbox_vars, drain_vars,
                       callback_vars, cred_vars, skew_vars, snap_vars, watch_vars,
                       recv_vars>>

\* handle_response for the response to a request the client has transmitted.
HandleResponse ==
    \E rid \in twin_sent, dv \in 1..MaxVersion, rv \in 1..MaxVersion :
        handle_response(rid, dv, rv)

\* handle_response for a response whose request id is not in the table (a
\* repeated response, or one to a request of an earlier run).
HandleUnknownResponse ==
    \E rid \in (1..MaxRid) \ {r.rid : r \in requests},
       dv \in 1..MaxVersion, rv \in 1..MaxVersion :
        handle_response(rid, dv, rv)

\* The process ends and a new one opens the same database file:
\* DeviceTwin::init loads the stored twins; the middleware and the MQTT
\* client are new.
TwinRestart ==
    /\ twin_run < MaxRuns
    /\ twin_run' = twin_run + 1
    /\ desired' = stored_desired
    /\ reported' = stored_reported
    /\ desired_properties_updates' = <<>>
    /\ requests' = {}
    /\ mqtt_requests' = <<>>
    /\ mqtt_pending' = <<>>
    /\ outgoing_pub' = <<>>
    /\ last_pkid' = 0
    /\ twin_sent' = {}
    /\ desired_initialized' = stored_desired.some
    /\ reported_initialized' = stored_reported.some
    /\ ready_pc' = "desired"
    /\ get_desired_result' = "none"
    /\ reported_last_saved' = None
    /\ reported_last_received' = None
    /\ UNCHANGED <<outbox, msg_seq, adding, latest_msg_id, latest_unseen, loader_pc,
                   last_id, messages, message_queue, connected, pending_d2c, state,
                   state_unseen, errors, was_disconnected, rid_seq, wait_pc, cnt, run,
                   handed_log, published_log, confirmed, removed_log, stored_before,
                   enq_during_wait, edge_open, left_at_drop, stored_desired,
                   stored_reported, notify_log, last_patch, reported_updates,
                   reported_seq, chan_vars, diff_vars, store_vars, build_vars,
                   send_vars, drop_vars, inbox_vars, drain_vars, callback_vars,
                   cred_vars, skew_vars, snap_vars, watch_vars, recv_vars>>

NextTwin ==
    \/ RequestGetTwins
    \/ DesiredPatchArrives
    \/ EnqueueReportedUpdate
    \/ UpdateReportedProperties
    \/ HandleResponse
    \/ HandleUnknownResponse
    \/ OutgoingPublish
    \/ IncomingPubAck
    \/ TwinRestart

\* The twin middleware with the MQTT client's request queue.
SpecTwin == Init /\ [][NextTwin]_vars

\* The same while the session stays connected: the middleware takes what
\* its channels deliver, the event loop sends and the broker acknowledges
\* every publish, and the cloud answers every twin request.
FairSpecTwin ==
    /\ SpecTwin
    /\ WF_vars(UpdateReportedProperties)
    /\ WF_vars(OutgoingPublish)
    /\ WF_vars(IncomingPubAck)
    /\ WF_vars(HandleResponse)

\* An update not yet received by the middleware cannot be handled because
\* the model has no request id left for it.
OutOfRequestIds ==
    /\ Load(reported_updates, reported_last_received) # None
    /\ rid_seq + 2 > MaxRid

\* C17: in a run, once an update is stored, the table of pending updates
\* eventually becomes empty (unless the process is restarted or the model
\* runs out of request ids).
C17_PendingEventuallyCleared ==
    (reported_updates # {} /\ twin_run = 0)
        ~> (reported_updates = {} \/ twin_run > 0 \/ OutOfRequestIds)

(***************************************************************************)
(* DeviceClient::new waits in wait_properties_ready for the two latches    *)
(* before it returns the client; the client then serves                    *)
(* desired_properties.                                                     *)
(***************************************************************************)
\* A wait that returns at once.
wait_rx_NoWait(latch) == TRUE

\* InitializationWaiter::wait_rx returns once the watched value is true.
wait_rx(latch) == latch

\* InitializationWaiter::wait, first wait_rx (desired_rx)
WaitDesiredReady ==
    /\ ready_pc = "desired"
    /\ wait_rx(desired_initialized)
    /\ ready_pc' = "reported"
    /\ UNCHANGED <<desired, reported, desired_properties_updates, stored_desired,
                   stored_reported, notify_log, last_patch, twin_run,
                   desired_initialized, reported_initialized, get_desired_result,
                   reported_updates, reported_seq, reported_last_saved,
                   reported_last_received, session_vars, chan_vars, diff_vars,
                   store_vars, build_vars, send_vars, drop_vars, inbox_vars,
                   drain_vars, callback_vars, cred_vars, skew_vars, snap_vars,
                   watch_vars, recv_vars>>

\* InitializationWaiter::wait, second wait_rx (reported_rx); DeviceClient::new
\* returns the client.
WaitReportedReady ==
    /\ ready_pc = "reported"
    /\ wait_rx(reported_initialized)
    /\ ready_pc' = "ready"
    /\ UNCHANGED <<desired, reported, desired_properties_updates, stored_desired,
                   stored_reported, notify_log, last_patch, twin_run,
                   desired_initialized, reported_initialized, get_desired_result,
                   reported_updates, reported_seq, reported_last_saved,
                   reported_last_received, session_vars, chan_vars, diff_vars,
                   store_vars, build_vars, send_vars, drop_vars, inbox_vars,
                   drain_vars, callback_vars, cred_vars, skew_vars, snap_vars,
                   watch_vars, recv_vars>>

\* IotHubTwinsClient::get_desired_properties, called on the built client.
GetDesiredProperties ==
    /\ ready_pc = "ready"
    /\ get_desired_result' = IF desired.some THEN "Ok" ELSE "NotInitialized"
    /\ UNCHANGED <<desired, reported, desired_properties_updates, stored_desired,
                   stored_reported, notify_log, last_patch, twin_run,
                   desired_initialized, reported_initialized, ready_pc,
                   reported_updates, reported_seq, reported_last_saved,
                   reported_last_received, session_vars, chan_vars, diff_vars,
                   store_vars, build_vars, send_vars, drop_vars, inbox_vars,
                   drain_vars, callback_vars, cred_vars, skew_vars, snap_vars,
                   watch_vars, recv_vars>>

NextTwinInit ==
    \/ RequestGetTwins
    \/ DesiredPatchArrives
    \/ EnqueueReportedUpdate
    \/ UpdateReportedProperties
    \/ HandleResponse
    \/ OutgoingPublish
    \/ IncomingPubAck
    \/ TwinRestart
    \/ WaitDesiredReady
    \/ WaitReportedReady
    \/ GetDesiredProperties

\* The twin middleware while and after the client is built.
SpecTwinInit == Init /\ [][NextTwinInit]_vars

\* C16: the client is returned only when both snapshots exist and both
\* latches are set; a set latch goes with an existing snapshot and stays set
\* for the life of the client, so desired_properties on a built client never
\* reports that the properties are not initialized.
C16_BuiltAfterSnapshots ==
    /\ desired_initialized => desired.some
    /\ reported_initialized => reported.some
    /\ ready_pc = "reported" => desired_initialized
    /\ ready_pc = "ready" =>
            /\ desired_initialized /\ reported_initialized
            /\ desired.some /\ reported.some
    /\ get_desired_result # "NotInitialized"

\* A client built on the twins received from the cloud answered
\* desired_properties after a later patch was merged.
C16_Witness ==
    /\ ready_pc = "ready"
    /\ get_desired_result = "Ok"
    /\ twin_run = 0
    /\ desired.patches # {}


(***************************************************************************)
(* Properties of the twin reconciler.                                      *)
(***************************************************************************)
\* C8: the versions of successive DesiredUpdated notifications never
\* decrease, and neither does the version of the stored desired snapshot.
C8_DesiredVersionMonotone ==
    /\ []Ascending(notify_log)
    /\ [][stored_desired'.version >= stored_desired.version]_vars

\* Notifications came from a full install, from patches merged on it and
\* from a later full install, on both sides of a restart.
C8_Witness ==
    /\ Len(notify_log) >= 3
    /\ notify_log[1] < notify_log[Len(notify_log)]
    /\ desired.patches # {}
    /\ twin_run > 0

\* C9: a desired patch at least two versions ahead of the local snapshot is
\* not applied (no merge, no save, no notification) and a GetTwins request
\* is published: the handler put one on the MQTT client's request queue, or
\* one was already waiting there.
C9_GapPatchRequestsTwins ==
    last_patch.gap => (~last_patch.applied /\ last_patch.requested)

(***************************************************************************)
(* SqliteStore::init on an existing file: read the schema version, update  *)
(* the schema if it is not the current one, then save the configuration.   *)
(***************************************************************************)
\* Any file an SDK version left behind, opened with any configuration.
InitStoreInputs ==
    /\ db \in DatabaseFiles
    /\ config \in SdkConfigurations
    /\ opened_db = db
    /\ applied = <<>>
    /\ store_pc = "closed"

\* init up to the return of try_update_version; its error is init's error.
StoreInitUpdate ==
    /\ store_pc = "closed"
    /\ LET r == try_update_version(db, [device_id |-> config.device_id,
                                        workspace_id |-> config.workspace_id])
       IN  /\ db' = r.db
           /\ applied' = r.applied
           /\ store_pc' = IF r.ok THEN "updated" ELSE "failed"
    /\ UNCHANGED <<config, opened_db, session_vars, chan_vars, twin_vars, diff_vars,
                   build_vars, send_vars, drop_vars, inbox_vars, drain_vars,
                   callback_vars, cred_vars, skew_vars, snap_vars, watch_vars,
                   recv_vars>>

\* INSERT OR REPLACE INTO SdkConfiguration with the provided values.
StoreInitSave ==
    /\ store_pc = "updated"
    /\ db' = [db EXCEPT !.db_version = DB_VERSION, !.row = config]
    /\ store_pc' = "saved"
    /\ UNCHANGED <<config, opened_db, applied, session_vars, chan_vars, twin_vars,
                   diff_vars, build_vars, send_vars, drop_vars, inbox_vars,
                   drain_vars, callback_vars, cred_vars, skew_vars, snap_vars,
                   watch_vars, recv_vars>>

NextStore ==
    \/ StoreInitUpdate
    \/ StoreInitSave

\* The initial states of SpecStore: its inputs, everything else at rest.
InitStore ==
    InitClient /\ InitStoreInputs /\ InitDiffIdle /\ InitBuildIdle /\ InitSendIdle /\ InitDropIdle /\ InitInboxIdle /\ InitDrainIdle /\ InitCallbackIdle /\ InitCredIdle /\ InitSkewIdle /\ InitSnapIdle /\ InitWatchIdle /\ InitRecvIdle

SpecStore == InitStore /\ [][NextStore]_vars

\* The fields of the configuration row that every schema version has.
Carried(row) ==
    <<row.provisioning_token, row.registration_token, row.rt_expiration>>

\* The whole configuration a legacy row stands for: its tokens, the
\* requested device id, the instance URL and the composite of workspace and
\* device id.
Stands(d) ==
    IF d.legacy
    THEN <<Carried(d.row), d.row.requested_device_id,
           convert_dps_url_to_instance_url(d.row.url), d.row.device_id>>
    ELSE <<Carried(d.row), d.row.requested_device_id, d.row.url,
           d.row.workspace_id \o ":" \o d.row.device_id>>

Fragments ==
    [provisioning_token : {Null, "pt1", "pt2"}, registration_token : {Null, "rt1"},
     expired : BOOLEAN, requested_device_id : RequestedIds,
     workspace_id : {Null, "w1"}, device_id : {Null, "d1"}]

BuilderOptions == [provisioning_token : {"pt1"}, device_id : RequestedIds]

\* Results of Provisioning::init, Provisioning::complete, drs::register and
\* of the display callback.
InitResults == {"Ok", "InvalidProvisioningToken", "WorkspaceDisabled", "Other"}
CompleteResults ==
    {"Ok", "NotReady", "ClosedCancelled", "ClosedOther", "WorkspaceDisabled", "Other"}
RegisterResults == {"Ok", "InvalidRegistrationToken", "WorkspaceDisabled", "Other"}
DisplayResults == {"Ok", "Err"}

\* The ids a registration response carries; the cloud may name another
\* device id than the one stored.
ResponseDeviceIds == {"d1", "d2"}

\* The condition under which obtain_valid_credentials reuses the stored
\* registration token.
CanReuse(frag, opts) ==
    /\ frag.provisioning_token # Null
    /\ frag.registration_token # Null
    /\ frag.workspace_id # Null
    /\ frag.device_id # Null
    /\ frag.provisioning_token = opts.provisioning_token
    /\ frag.requested_device_id = opts.device_id
    /\ ~frag.expired

\* register_if_connected that trusts the stored token only when the cloud
\* confirmed it.
register_if_connected_Strict(result) ==
    [valid |-> result = "Ok", response |-> result = "Ok"]

\* register_if_connected: is the token considered valid, and is there a
\* registration response.
register_if_connected(result) ==
    IF result = "Ok" THEN [valid |-> TRUE, response |-> TRUE]
    ELSE IF result = "InvalidRegistrationToken" THEN [valid |-> FALSE, response |-> FALSE]
    ELSE [valid |-> TRUE, response |-> FALSE]

\* What each step of the provisioning loop does with a result: "ok" goes on,
\* "fail" ends build, "retry" starts a new operation, "wait" sleeps and
\* repeats the step.
init_operation(result) ==
    IF result = "Ok" THEN "ok"
    ELSE IF result = "InvalidProvisioningToken" THEN "fail"
    ELSE "wait"

\* complete_operation that starts a new operation after a cancellation.
complete_operation_RetryCancelled(result) ==
    IF result = "Ok" THEN "ok"
    ELSE IF result \in {"ClosedCancelled", "ClosedOther"} THEN "retry"
    ELSE "wait"

complete_operation(result) ==
    IF result = "Ok" THEN "ok"
    ELSE IF result = "ClosedCancelled" THEN "fail"
    ELSE IF result = "ClosedOther" THEN "retry"
    ELSE "wait"

register_device(result) ==
    IF result = "Ok" THEN "ok"
    ELSE IF result = "InvalidRegistrationToken" THEN "retry"
    ELSE "wait"

\* Any fragment a database file can hold, any options, no signal yet.
InitBuildInputs ==
    /\ db_config \in Fragments
    /\ options \in BuilderOptions
    /\ build_pc = "start"
    /\ signal = FALSE
    /\ signal_reported = FALSE
    /\ last_call = NoCall
    /\ slept = 0
    /\ reuse_response = "none"
    /\ provisioning = FALSE
    /\ init_calls = 0
    /\ register_calls = 0
    /\ calls = 0
    /\ credentials = NoCredentials

\* The process receives a signal: from now on check_signals returns an error.
SignalArrives ==
    /\ build_pc \notin {"idle", "credentials", "failed"}
    /\ ~signal
    /\ signal' = TRUE
    /\ UNCHANGED <<db_config, options, build_pc, signal_reported, last_call, slept,
                   reuse_response, provisioning, init_calls, register_calls, calls,
                   credentials, session_vars, chan_vars, twin_vars, diff_vars,
                   store_vars, send_vars, drop_vars, inbox_vars, drain_vars,
                   callback_vars, cred_vars, skew_vars, snap_vars, watch_vars,
                   recv_vars>>

\* obtain_valid_credentials up to the call of provision_device: with a
\* reusable token, one call of register, check_signals, and the return of
\* the stored token if it is considered valid.
ObtainValidCredentials ==
    /\ build_pc = "start"
    /\ IF CanReuse(db_config, options)
       THEN \E result \in RegisterResults, rid \in ResponseDeviceIds :
            LET r == register_if_connected(result) IN
            /\ last_call' = [step |-> "register_if_connected", result |-> result]
            /\ reuse_response' = result
            /\ register_calls' = register_calls + 1
            /\ calls' = calls + 1
            /\ IF signal
               THEN /\ signal_reported' = TRUE
                    /\ build_pc' = "failed"
                    /\ UNCHANGED <<provisioning, credentials>>
               ELSE IF r.valid
               THEN /\ build_pc' = "credentials"
                    /\ credentials' =
                         [registration_token |-> db_config.registration_token,
                          workspace_id |-> IF r.response THEN "w1"
                                           ELSE db_config.workspace_id,
                          device_id |-> IF r.response THEN rid ELSE db_config.device_id,
                          response |-> r.response]
                    /\ UNCHANGED <<provisioning, signal_reported>>
               ELSE /\ build_pc' = "init"
                    /\ provisioning' = TRUE
                    /\ UNCHANGED <<credentials, signal_reported>>
       ELSE /\ build_pc' = "init"
            /\ provisioning' = TRUE
            /\ UNCHANGED <<last_call, reuse_response, register_calls, calls,
                           signal_reported, credentials>>
    /\ UNCHANGED <<db_config, options, signal, slept, init_calls, session_vars,
                   chan_vars, twin_vars, diff_vars, store_vars, send_vars, drop_vars,
                   inbox_vars, drain_vars, callback_vars, cred_vars, skew_vars,
                   snap_vars, watch_vars, recv_vars>>

\* The end of a step of the provisioning loop: go on, end build, start a new
\* operation, or check_signals before the sleep.
AfterStep(step, outcome, next) ==
    IF outcome = "ok" THEN build_pc' = next /\ UNCHANGED signal_reported
    ELSE IF outcome = "fail" THEN build_pc' = "failed" /\ UNCHANGED signal_reported
    ELSE IF outcome = "retry" THEN build_pc' = "init" /\ UNCHANGED signal_reported
    ELSE IF signal THEN build_pc' = "failed" /\ signal_reported' = TRUE
    ELSE build_pc' = step \o "_sleep" /\ UNCHANGED signal_reported

\* init_operation: one call of Provisioning::init.
InitOperation ==
    /\ build_pc = "init"
    /\ calls < MaxCalls
    /\ \E result \in InitResults :
        /\ last_call' = [step |-> "init", result |-> result]
        /\ AfterStep("init", init_operation(result), "display")
    /\ init_calls' = init_calls + 1
    /\ calls' = calls + 1
    /\ slept' = 0
    /\ UNCHANGED <<db_config, options, signal, reuse_response, provisioning,
                   register_calls, credentials, session_vars, chan_vars, twin_vars,
                   diff_vars, store_vars, send_vars, drop_vars, inbox_vars,
                   drain_vars, callback_vars, cred_vars, skew_vars, snap_vars,
                   watch_vars, recv_vars>>

\* display_operation_details: the callback or the console.
DisplayOperationDetails ==
    /\ build_pc = "display"
    /\ \E result \in DisplayResults :
        /\ last_call' = [step |-> "display", result |-> result]
        /\ build_pc' = IF result = "Ok" THEN "complete" ELSE "failed"
    /\ slept' = 0
    /\ UNCHANGED <<db_config, options, signal, signal_reported, reuse_response,
                   provisioning, init_calls, register_calls, calls, credentials,
                   session_vars, chan_vars, twin_vars, diff_vars, store_vars,
                   send_vars, drop_vars, inbox_vars, drain_vars, callback_vars,
                   cred_vars, skew_vars, snap_vars, watch_vars, recv_vars>>

\* complete_operation: one call of Provisioning::complete.
CompleteOperation ==
    /\ build_pc = "complete"
    /\ calls < MaxCalls
    /\ \E result \in CompleteResults :
        /\ last_call' = [step |-> "complete", result |-> result]
        /\ AfterStep("complete", complete_operation(result), "register")
    /\ calls' = calls + 1
    /\ slept' = 0
    /\ UNCHANGED <<db_config, options, signal, reuse_response, provisioning,
                   init_calls, register_calls, credentials, session_vars, chan_vars,
                   twin_vars, diff_vars, store_vars, send_vars, drop_vars, inbox_vars,
                   drain_vars, callback_vars, cred_vars, skew_vars, snap_vars,
                   watch_vars, recv_vars>>

\* register_device: one call of drs::register with the new token; its
\* response ends provision_device and obtain_valid_credentials.
RegisterDevice ==
    /\ build_pc = "register"
    /\ calls < MaxCalls
    /\ \E result \in RegisterResults, rid \in ResponseDeviceIds :
        /\ last_call' = [step |-> "register", result |-> result]
        /\ AfterStep("register", register_device(result), "credentials")
        /\ credentials' = IF register_device(result) = "ok"
                          THEN [registration_token |-> "rt_new", workspace_id |-> "w1",
                                device_id |-> rid, response |-> TRUE]
                          ELSE credentials
    /\ register_calls' = register_calls + 1
    /\ calls' = calls + 1
    /\ slept' = 0
    /\ UNCHANGED <<db_config, options, signal, reuse_response, provisioning,
                   init_calls, session_vars, chan_vars, twin_vars, diff_vars,
                   store_vars, send_vars, drop_vars, inbox_vars, drain_vars,
                   callback_vars, cred_vars, skew_vars, snap_vars, watch_vars,
                   recv_vars>>

\* thread::sleep(5000 ms) and the check_signals after it.
Sleep ==
    /\ build_pc \in {"init_sleep", "complete_sleep", "register_sleep"}
    /\ slept' = slept + RetryDelayMs
    /\ IF signal
       THEN build_pc' = "failed" /\ signal_reported' = TRUE
       ELSE build_pc' = last_call.step /\ UNCHANGED signal_reported
    /\ UNCHANGED <<db_config, options, signal, last_call, reuse_response,
                   provisioning, init_calls, register_calls, calls, credentials,
                   session_vars, chan_vars, twin_vars, diff_vars, store_vars,
                   send_vars, drop_vars, inbox_vars, drain_vars, callback_vars,
                   cred_vars, skew_vars, snap_vars, watch_vars, recv_vars>>

NextBuild ==
    \/ SignalArrives
    \/ ObtainValidCredentials
    \/ InitOperation
    \/ DisplayOperationDetails
    \/ CompleteOperation
    \/ RegisterDevice
    \/ Sleep

\* The initial states of SpecBuild: its inputs, everything else at rest.
InitBuild ==
    InitClient /\ InitBuildInputs /\ InitDiffIdle /\ InitStoreIdle /\ InitSendIdle /\ InitDropIdle /\ InitInboxIdle /\ InitDrainIdle /\ InitCallbackIdle /\ InitCredIdle /\ InitSkewIdle /\ InitSnapIdle /\ InitWatchIdle /\ InitRecvIdle

SpecBuild == InitBuild /\ [][NextBuild]_vars

\* The results after which build must fail, those after which a new
\* operation must be initiated, and the others that are errors.
TerminalCalls ==
    {[step |-> "init", result |-> "InvalidProvisioningToken"],
     [step |-> "display", result |-> "Err"],
     [step |-> "complete", result |-> "ClosedCancelled"]}

FreshOperationCalls ==
    {[step |-> "complete", result |-> "ClosedOther"],
     [step |-> "register", result |-> "InvalidRegistrationToken"]}

DelayedCalls ==
    [step : {"init", "complete", "register"},
     result : {"NotReady", "WorkspaceDisabled", "Other"}]

\* C13: in the provisioning loop build fails, and calls the cloud no more,
\* exactly when the operation was cancelled, the provisioning token was
\* rejected as invalid, the display hook failed or the signal source
\* reported a signal; after an operation closed for another reason or a
\* rejected new registration token the loop is back at initiating an
\* operation, without a delay; after any other error the same step is
\* repeated once 5000 ms have passed.
C13_ProvisioningErrors ==
    /\ build_pc = "failed" <=> (signal_reported \/ last_call \in TerminalCalls)
    /\ last_call \in FreshOperationCalls => (build_pc = "init" /\ slept = 0)
    /\ (last_call \in DelayedCalls /\ ~signal_reported) =>
            \/ build_pc = last_call.step \o "_sleep" /\ slept = 0
            \/ build_pc = last_call.step /\ slept = RetryDelayMs

\* Build failed on a cancelled operation that was the second one: the first
\* was closed for another reason after a delayed retry of its completion.
C13_Witness ==
    /\ build_pc = "failed"
    /\ last_call = [step |-> "complete", result |-> "ClosedCancelled"]
    /\ init_calls = 2
    /\ calls = MaxCalls

\* The stored token is reusable.
ReuseCase == CanReuse(db_config, options)

\* C14: with a reusable stored token build makes exactly one registration
\* call before anything else; provisioning starts only if that call
\* reported an invalid registration token; after a transient or
\* workspace-disabled failure build goes on with the stored token and ids
\* and no registration response (unless the signal source ends it).
C14_ReuseStoredToken ==
    (ReuseCase /\ build_pc # "start") =>
        /\ reuse_response # "none"
        /\ ~provisioning => register_calls = 1
        /\ provisioning => reuse_response = "InvalidRegistrationToken"
        /\ (reuse_response \in {"WorkspaceDisabled", "Other"} /\ ~signal_reported) =>
                /\ build_pc = "credentials"
                /\ credentials = [registration_token |-> db_config.registration_token,
                                  workspace_id |-> db_config.workspace_id,
                                  device_id |-> db_config.device_id,
                                  response |-> FALSE]

\* Build went on offline after a transient failure of the one call.
C14_Witness ==
    /\ ReuseCase
    /\ reuse_response = "Other"
    /\ build_pc = "credentials"
    /\ register_calls = 1
    /\ credentials.registration_token = "rt1"
    /\ ~credentials.response

(***************************************************************************)
(* Sender::publish_iothub: the properties of the topic, the compression of *)
(* the content, the file upload of a long content, and the publish.        *)
(***************************************************************************)
\* The optional fields of a message, in the order their properties are
\* pushed.
OptionalFields ==
    <<"stream-group-name", "stream-name", "site-id", "batch-id", "batch-slice-id",
      "message-id", "chunk-id">>

\* The fields that vary in the model; the others are absent.
VariedFields == {"stream-group-name", "batch-id"}

ContentLengths == {0, 1, 100, FileUploadLimit, FileUploadLimit + 1, FileUploadLimit + 100}

\* Brotli's output for a non-empty input is never empty; it can be longer
\* than the input.
BrotliLengths == {1, 50, 100, 101, FileUploadLimit, FileUploadLimit + 1}

Compressions == {"None", "BrotliFastest", "BrotliSmallestSize"}

CloseOptions == {"None", "Close", "CloseOnly", "CloseMessageOnly"}

DeviceMessages ==
    [present : SUBSET VariedFields, content_len : ContentLengths,
     compression : Compressions, brotli_len : BrotliLengths, close_option : CloseOptions]

\* get_compression_quality: 0 stands for None.
get_compression_quality(compression) ==
    IF compression = "BrotliFastest" THEN 1
    ELSE IF compression = "BrotliSmallestSize" THEN 11
    ELSE 0

\* The choice of the content that also takes a compressed content of the
\* same length.
ChooseContent_NotLonger(m) ==
    IF m.content_len # 0 /\ get_compression_quality(m.compression) # 0
       /\ m.brotli_len <= m.content_len
    THEN [bytes |-> "compressed", len |-> m.brotli_len]
    ELSE [bytes |-> "original", len |-> m.content_len]

\* The match on (content.is_empty(), get_compression_quality(compression)).
ChooseContent(m) ==
    IF m.content_len # 0 /\ get_compression_quality(m.compression) # 0
       /\ m.brotli_len < m.content_len
    THEN [bytes |-> "compressed", len |-> m.brotli_len]
    ELSE [bytes |-> "original", len |-> m.content_len]

is_file_upload(c) == c.len > FileUploadLimit

\* The properties of the optional fields that are present.
FieldProperties(m) == SelectSeq(OptionalFields, LAMBDA f : f \in m.present)

CloseProperties(close_option) ==
    IF close_option = "Close" THEN <<"complete-batch=true">>
    ELSE IF close_option = "CloseOnly" THEN <<"complete-batch=true", "ignore-payload=true">>
    ELSE IF close_option = "CloseMessageOnly"
    THEN <<"complete-message=true", "ignore-payload=true">>
    ELSE <<>>

\* The link published in place of an uploaded content.
Link == [bytes |-> "link", len |-> 47]

\* Any message the channel can deliver.
InitSendInputs ==
    /\ msg \in DeviceMessages
    /\ send_pc = "taken"
    /\ content = NoContent
    /\ properties = <<>>
    /\ published = NoPublish

\* publish_iothub up to the first await: the properties of the fields, the
\* choice of the content and its flag, and for a short content the rest of
\* the properties.
PublishIothub ==
    /\ send_pc = "taken"
    /\ LET c == ChooseContent(msg)
           p == FieldProperties(msg)
                \o (IF c.bytes = "compressed" THEN <<"content-encoding=br">> ELSE <<>>)
       IN  IF is_file_upload(c)
           THEN /\ properties' = Append(p, "has-externalized-payload=true")
                /\ content' = c
                /\ send_pc' = "upload"
           ELSE /\ properties' = p \o CloseProperties(msg.close_option)
                /\ content' = c
                /\ send_pc' = "publish"
    /\ UNCHANGED <<msg, published, session_vars, chan_vars, twin_vars, diff_vars,
                   store_vars, build_vars, drop_vars, inbox_vars, drain_vars,
                   callback_vars, cred_vars, skew_vars, snap_vars, watch_vars,
                   recv_vars>>

\* publish_file, repeated until it succeeds; the link becomes the content.
PublishFile ==
    /\ send_pc = "upload"
    /\ \E ok \in BOOLEAN :
        IF ok
        THEN /\ content' = Link
             /\ properties' = properties \o CloseProperties(msg.close_option)
             /\ send_pc' = "publish"
        ELSE UNCHANGED <<content, properties, send_pc>>
    /\ UNCHANGED <<msg, published, session_vars, chan_vars, twin_vars, diff_vars,
                   store_vars, build_vars, drop_vars, inbox_vars, drain_vars,
                   callback_vars, cred_vars, skew_vars, snap_vars, watch_vars,
                   recv_vars>>

\* mqtt.publish(topic, AtLeastOnce, false, content); it fails only when the
\* event loop has closed its request queue.
MqttPublish ==
    /\ send_pc = "publish"
    /\ \E ok \in BOOLEAN :
        IF ok
        THEN /\ published' = [properties |-> properties, payload |-> content]
             /\ send_pc' = "sent"
        ELSE /\ published' = published
             /\ send_pc' = "not_sent"
    /\ UNCHANGED <<msg, content, properties, session_vars, chan_vars, twin_vars,
                   diff_vars, store_vars, build_vars, drop_vars, inbox_vars,
                   drain_vars, callback_vars, cred_vars, skew_vars, snap_vars,
                   watch_vars, recv_vars>>

NextSend ==
    \/ PublishIothub
    \/ PublishFile
    \/ MqttPublish

\* The initial states of SpecSend: its inputs, everything else at rest.
InitSend ==
    InitClient /\ InitSendInputs /\ InitDiffIdle /\ InitStoreIdle /\ InitBuildIdle /\ InitDropIdle /\ InitInboxIdle /\ InitDrainIdle /\ InitCallbackIdle /\ InitCredIdle /\ InitSkewIdle /\ InitSnapIdle /\ InitWatchIdle /\ InitRecvIdle

SpecSend == InitSend /\ [][NextSend]_vars

\* The condition of the claim: a non-empty payload, a compression other
\* than None and a Brotli output strictly shorter than the payload.
Shrinks(m) == m.content_len > 0 /\ m.compression # "None" /\ m.brotli_len < m.content_len

HasFlag(props, flag) == \E i \in 1..Len(props) : props[i] = flag

\* C15 (as stated): content-encoding=br is appended and the compressed bytes
\* are published iff the payload shrinks; otherwise the original bytes are
\* published without the flag.
C15_PublishedBytes ==
    send_pc = "sent" =>
        IF Shrinks(msg)
        THEN /\ HasFlag(published.properties, "content-encoding=br")
             /\ published.payload = [bytes |-> "compressed", len |-> msg.brotli_len]
        ELSE /\ ~HasFlag(published.properties, "content-encoding=br")
             /\ published.payload = [bytes |-> "original", len |-> msg.content_len]

\* C15 (amended): content-encoding=br is appended and the compressed bytes
\* are the content iff the payload shrinks, otherwise the original bytes are
\* the content and there is no flag; a content of at most 250000 bytes is
\* published as it is, a longer one is uploaded as a file and the link to it
\* is published with has-externalized-payload=true.
C15_CompressionFlag ==
    send_pc = "sent" =>
        LET chosen == IF Shrinks(msg)
                      THEN [bytes |-> "compressed", len |-> msg.brotli_len]
                      ELSE [bytes |-> "original", len |-> msg.content_len]
        IN  /\ HasFlag(published.properties, "content-encoding=br") <=> Shrinks(msg)
            /\ HasFlag(published.properties, "has-externalized-payload=true")
                    <=> chosen.len > FileUploadLimit
            /\ published.payload = IF chosen.len > FileUploadLimit THEN Link ELSE chosen

\* A compressed content was published with the flag, and the Brotli output
\* was one byte shorter than the payload.
C15_Witness ==
    /\ send_pc = "sent"
    /\ msg.brotli_len + 1 = msg.content_len
    /\ msg.compression = "BrotliFastest"
    /\ published.payload.bytes = "compressed"
    /\ HasFlag(published.properties, "content-encoding=br")

(***************************************************************************)
(* TwinsMiddleware::update_reported_properties for a Full update: the      *)
(* patch is the diff of the current reported properties and the requested  *)
(* ones, and the patch is merged into the current ones.                    *)
(***************************************************************************)
\* Any pair of objects as the current and the requested properties.
InitDiffInputs ==
    /\ original \in JsonObjects
    /\ desired_json \in JsonObjects
    /\ patch = JObject({})
    /\ merged = JObject({})
    /\ diff_pc = "input"

\* json_diff::diff(&current, &update.patch)
DiffCall ==
    /\ diff_pc = "input"
    /\ patch' = diff(original, desired_json)
    /\ diff_pc' = "diffed"
    /\ UNCHANGED <<original, desired_json, merged, session_vars, chan_vars, twin_vars,
                   store_vars, build_vars, send_vars, drop_vars, inbox_vars,
                   drain_vars, callback_vars, cred_vars, skew_vars, snap_vars,
                   watch_vars, recv_vars>>

\* merge(&mut twin.properties, &update.patch)
MergeCall ==
    /\ diff_pc = "diffed"
    /\ merged' = merge(original, patch)
    /\ diff_pc' = "merged"
    /\ UNCHANGED <<original, desired_json, patch, session_vars, chan_vars, twin_vars,
                   store_vars, build_vars, send_vars, drop_vars, inbox_vars,
                   drain_vars, callback_vars, cred_vars, skew_vars, snap_vars,
                   watch_vars, recv_vars>>

NextDiff ==
    \/ DiffCall
    \/ MergeCall

\* The diff of every pair of objects and its merge.
\* The initial states of SpecDiff: its inputs, everything else at rest.
InitDiff ==
    InitClient /\ InitDiffInputs /\ InitStoreIdle /\ InitBuildIdle /\ InitSendIdle /\ InitDropIdle /\ InitInboxIdle /\ InitDrainIdle /\ InitCallbackIdle /\ InitCredIdle /\ InitSkewIdle /\ InitSnapIdle /\ InitWatchIdle /\ InitRecvIdle

SpecDiff == InitDiff /\ [][NextDiff]_vars

\* C11 (as stated): merging diff(original, desired) into original yields
\* desired, for every pair of objects.
C11_RoundTripAll == diff_pc = "merged" => merged = desired_json

\* C11 (amended): merging diff(original, desired) into original yields
\* desired whenever no member of desired, at any depth, is null.
C11_RoundTripNullFree ==
    (diff_pc = "merged" /\ ~HasNullMember(desired_json)) => merged = desired_json

\* A round trip that added, changed and removed: the original had a null
\* member and a nested object, the desired object differs in both and has
\* no null member.
C11_Witness ==
    /\ diff_pc = "merged"
    /\ ~HasNullMember(desired_json)
    /\ HasNullMember(original)
    /\ \E q \in patch.m : q[2] = JNull
    /\ \E q \in patch.m : q[2].kind = "object" /\ q[2].m # {}
    /\ merged = desired_json

(***************************************************************************)
(* Start-up and shutdown.  BaseConnection::start creates the connection    *)
(* task and a thread that awaits it and then the tasks it returns; the     *)
(* drop of the client cancels the token and joins that thread.             *)
(***************************************************************************)

MessageKinds == {"small", "file"}

SavedMessages == UNION {[1..n -> MessageKinds] : n \in 0..MaxSaved}

\* persistence::start has spawned the loader, TokenHandler::init the
\* registration worker, and the thread awaits the connection task.
InitDropInputs ==
    /\ cancellation = FALSE
    /\ registration = "none"
    /\ connection_pc = "first_registration"
    /\ mqtt_task = "none"
    /\ sender_task = "none"
    /\ twins_task = "none"
    /\ loader_task = "running"
    /\ sender_pc = "select"
    /\ saved \in SavedMessages
    /\ loaded = <<>>
    /\ disconnect = "none"
    /\ thread_pc = "connection"
    /\ drop_pc = "alive"

\* TokenHandler::refresh_tokens, first loop: a registration that succeeds
\* is published on the watch; one without a SAS expiration panics the worker,
\* which drops the watch sender.  A failed attempt sleeps 30 seconds and
\* tries again: it changes nothing, and the loop never looks at the token.
RegisterFirst ==
    /\ registration = "none"
    /\ connection_pc # "idle"
    /\ \E outcome \in {"some", "closed"} : registration' = outcome
    /\ UNCHANGED <<cancellation, connection_pc, mqtt_task, sender_task, twins_task,
                   loader_task, sender_pc, saved, loaded, disconnect, thread_pc,
                   drop_pc, session_vars, chan_vars, twin_vars, diff_vars, store_vars,
                   build_vars, send_vars, inbox_vars, drain_vars, callback_vars,
                   cred_vars, skew_vars, snap_vars, watch_vars, recv_vars>>

\* connect_iothub and the set-up up to the spawn of the MQTT task: waits for
\* the first registration whatever the token says.
ConnectIothub ==
    /\ connection_pc = "first_registration"
    /\ registration # "none"
    /\ IF registration = "closed"
       THEN /\ connection_pc' = "panicked"
            /\ mqtt_task' = mqtt_task
       ELSE \E usable \in BOOLEAN :
                IF usable
                THEN /\ connection_pc' = "subacks"
                     /\ mqtt_task' = "running"
                ELSE /\ connection_pc' = "failed"
                     /\ mqtt_task' = mqtt_task
    /\ UNCHANGED <<cancellation, registration, sender_task, twins_task, loader_task,
                   sender_pc, saved, loaded, disconnect, thread_pc, drop_pc,
                   session_vars, chan_vars, twin_vars, diff_vars, store_vars,
                   build_vars, send_vars, inbox_vars, drain_vars, callback_vars,
                   cred_vars, skew_vars, snap_vars, watch_vars, recv_vars>>

\* SubscriptionTask::wait: all acknowledgements arrive while the event loop
\* runs, or the channel closes with the event loop.
AwaitSubacks ==
    /\ connection_pc = "subacks"
    /\ \/ /\ mqtt_task = "running"
          /\ connection_pc' = "twins"
          /\ twins_task' = "running"
       \/ /\ mqtt_task = "ended"
          /\ connection_pc' = "failed"
          /\ twins_task' = twins_task
    /\ UNCHANGED <<cancellation, registration, mqtt_task, sender_task, loader_task,
                   sender_pc, saved, loaded, disconnect, thread_pc, drop_pc,
                   session_vars, chan_vars, twin_vars, diff_vars, store_vars,
                   build_vars, send_vars, inbox_vars, drain_vars, callback_vars,
                   cred_vars, skew_vars, snap_vars, watch_vars, recv_vars>>

\* get_twins and desired_properties_changed, then the spawn of the sender
\* and the hand-over of the OnlineConnection, which fails once the
\* IotHubConnection is gone.
AwaitTwins ==
    /\ connection_pc = "twins"
    /\ \/ /\ twins_task = "running"
          /\ mqtt_task = "running"
          /\ sender_task' = "running"
          /\ connection_pc' = IF drop_pc \in {"join", "dropped"} THEN "failed" ELSE "online"
       \/ /\ twins_task = "ended"
          /\ sender_task' = sender_task
          /\ connection_pc' = "failed"
    /\ UNCHANGED <<cancellation, registration, mqtt_task, twins_task, loader_task,
                   sender_pc, saved, loaded, disconnect, thread_pc, drop_pc,
                   session_vars, chan_vars, twin_vars, diff_vars, store_vars,
                   build_vars, send_vars, inbox_vars, drain_vars, callback_vars,
                   cred_vars, skew_vars, snap_vars, watch_vars, recv_vars>>

\* EventLoop::run, the cancelled branch of its select.
MqttCancelled ==
    /\ mqtt_task = "running"
    /\ cancellation
    /\ mqtt_task' = "ended"
    /\ UNCHANGED <<cancellation, registration, connection_pc, sender_task, twins_task,
                   loader_task, sender_pc, saved, loaded, disconnect, thread_pc,
                   drop_pc, session_vars, chan_vars, twin_vars, diff_vars, store_vars,
                   build_vars, send_vars, inbox_vars, drain_vars, callback_vars,
                   cred_vars, skew_vars, snap_vars, watch_vars, recv_vars>>

\* EventLoop::process_outgoing_message, Outgoing::Disconnect.
MqttDisconnect ==
    /\ mqtt_task = "running"
    /\ disconnect = "requested"
    /\ disconnect' = "sent"
    /\ cancellation' = TRUE
    /\ UNCHANGED <<registration, connection_pc, mqtt_task, sender_task, twins_task,
                   loader_task, sender_pc, saved, loaded, thread_pc, drop_pc,
                   session_vars, chan_vars, twin_vars, diff_vars, store_vars,
                   build_vars, send_vars, inbox_vars, drain_vars, callback_vars,
                   cred_vars, skew_vars, snap_vars, watch_vars, recv_vars>>

\* TwinsMiddleware::process, the cancelled branch of its select.
TwinsCancelled ==
    /\ twins_task = "running"
    /\ cancellation
    /\ twins_task' = "ended"
    /\ UNCHANGED <<cancellation, registration, connection_pc, mqtt_task, sender_task,
                   loader_task, sender_pc, saved, loaded, disconnect, thread_pc,
                   drop_pc, session_vars, chan_vars, twin_vars, diff_vars, store_vars,
                   build_vars, send_vars, inbox_vars, drain_vars, callback_vars,
                   cred_vars, skew_vars, snap_vars, watch_vars, recv_vars>>

\* The loader task of persistence::start hands the next stored message to
\* the channel.
LoaderSend ==
    /\ loader_task = "running"
    /\ saved # <<>>
    /\ loaded' = Append(loaded, Head(saved))
    /\ saved' = Tail(saved)
    /\ UNCHANGED <<cancellation, registration, connection_pc, mqtt_task, sender_task,
                   twins_task, loader_task, sender_pc, disconnect, thread_pc, drop_pc,
                   session_vars, chan_vars, twin_vars, diff_vars, store_vars,
                   build_vars, send_vars, inbox_vars, drain_vars, callback_vars,
                   cred_vars, skew_vars, snap_vars, watch_vars, recv_vars>>

\* The loader task, the cancelled branch of either select.
LoaderCancelled ==
    /\ loader_task = "running"
    /\ cancellation
    /\ loader_task' = "ended"
    /\ UNCHANGED <<cancellation, registration, connection_pc, mqtt_task, sender_task,
                   twins_task, sender_pc, saved, loaded, disconnect, thread_pc,
                   drop_pc, session_vars, chan_vars, twin_vars, diff_vars, store_vars,
                   build_vars, send_vars, inbox_vars, drain_vars, callback_vars,
                   cred_vars, skew_vars, snap_vars, watch_vars, recv_vars>>

\* Sender::process_saved, the cancelled branch of its select.
SenderCancelled ==
    /\ sender_task = "running"
    /\ sender_pc = "select"
    /\ cancellation
    /\ sender_task' = "ended"
    /\ UNCHANGED <<cancellation, registration, connection_pc, mqtt_task, twins_task,
                   loader_task, sender_pc, saved, loaded, disconnect, thread_pc,
                   drop_pc, session_vars, chan_vars, twin_vars, diff_vars, store_vars,
                   build_vars, send_vars, inbox_vars, drain_vars, callback_vars,
                   cred_vars, skew_vars, snap_vars, watch_vars, recv_vars>>

\* The publish at the end of publish_iothub: it fails once the event loop
\* is gone, which is an error only when the token is not cancelled, and
\* process_saved unwraps the error.
publish_result ==
    IF mqtt_task = "ended" /\ ~cancellation THEN "ended" ELSE "running"

\* Sender::process_saved, the message branch: publish_iothub enters the
\* upload loop for a file and publishes anything else.
SenderGetMessage ==
    /\ sender_task = "running"
    /\ sender_pc = "select"
    /\ loaded # <<>>
    /\ loaded' = Tail(loaded)
    /\ IF Head(loaded) = "file"
       THEN /\ sender_pc' = "upload"
            /\ sender_task' = sender_task
       ELSE /\ sender_pc' = "select"
            /\ sender_task' = publish_result
    /\ UNCHANGED <<cancellation, registration, connection_pc, mqtt_task, twins_task,
                   loader_task, saved, disconnect, thread_pc, drop_pc, session_vars,
                   chan_vars, twin_vars, diff_vars, store_vars, build_vars, send_vars,
                   inbox_vars, drain_vars, callback_vars, cred_vars, skew_vars,
                   snap_vars, watch_vars, recv_vars>>

\* publish_iothub, the upload loop: left only by an upload that succeeds.
\* A failed upload is logged and tried again: it changes nothing, and the
\* loop never looks at the token.
UploadSucceeds ==
    /\ sender_task = "running"
    /\ sender_pc = "upload"
    /\ sender_pc' = "select"
    /\ sender_task' = publish_result
    /\ UNCHANGED <<cancellation, registration, connection_pc, mqtt_task, twins_task,
                   loader_task, saved, loaded, disconnect, thread_pc, drop_pc,
                   session_vars, chan_vars, twin_vars, diff_vars, store_vars,
                   build_vars, send_vars, inbox_vars, drain_vars, callback_vars,
                   cred_vars, skew_vars, snap_vars, watch_vars, recv_vars>>

\* The thread of BaseConnection::start: the connection task has ended.
ThreadAwaitConnection ==
    /\ thread_pc = "connection"
    /\ connection_pc \in {"online", "failed", "panicked"}
    /\ thread_pc' = IF connection_pc = "online" THEN "tasks" ELSE "finished"
    /\ UNCHANGED <<cancellation, registration, connection_pc, mqtt_task, sender_task,
                   twins_task, loader_task, sender_pc, saved, loaded, disconnect,
                   drop_pc, session_vars, chan_vars, twin_vars, diff_vars, store_vars,
                   build_vars, send_vars, inbox_vars, drain_vars, callback_vars,
                   cred_vars, skew_vars, snap_vars, watch_vars, recv_vars>>

\* The thread of BaseConnection::start: the three tasks have ended.
ThreadAwaitTasks ==
    /\ thread_pc = "tasks"
    /\ mqtt_task = "ended"
    /\ sender_task = "ended"
    /\ twins_task = "ended"
    /\ thread_pc' = "finished"
    /\ UNCHANGED <<cancellation, registration, connection_pc, mqtt_task, sender_task,
                   twins_task, loader_task, sender_pc, saved, loaded, disconnect,
                   drop_pc, session_vars, chan_vars, twin_vars, diff_vars, store_vars,
                   build_vars, send_vars, inbox_vars, drain_vars, callback_vars,
                   cred_vars, skew_vars, snap_vars, watch_vars, recv_vars>>

\* BaseConnection::drop, first statement: IotHubConnection::drop asks for a
\* Disconnect when the connection was handed over, and cancels otherwise.
DropClient ==
    /\ drop_pc = "alive"
    /\ IF connection_pc = "online"
       THEN /\ disconnect' = "requested"
            /\ cancellation' = cancellation
            /\ drop_pc' = "grace"
       ELSE /\ disconnect' = disconnect
            /\ cancellation' = TRUE
            /\ drop_pc' = "join"
    /\ UNCHANGED <<registration, connection_pc, mqtt_task, sender_task, twins_task,
                   loader_task, sender_pc, saved, loaded, thread_pc, session_vars,
                   chan_vars, twin_vars, diff_vars, store_vars, build_vars, send_vars,
                   inbox_vars, drain_vars, callback_vars, cred_vars, skew_vars,
                   snap_vars, watch_vars, recv_vars>>

\* IotHubConnection::drop, the end of the one-second window: the token was
\* cancelled by the event loop, or is cancelled now.
GraceEnds ==
    /\ drop_pc = "grace"
    /\ cancellation' = TRUE
    /\ drop_pc' = "join"
    /\ UNCHANGED <<registration, connection_pc, mqtt_task, sender_task, twins_task,
                   loader_task, sender_pc, saved, loaded, disconnect, thread_pc,
                   session_vars, chan_vars, twin_vars, diff_vars, store_vars,
                   build_vars, send_vars, inbox_vars, drain_vars, callback_vars,
                   cred_vars, skew_vars, snap_vars, watch_vars, recv_vars>>

\* utils::thread::join returns.
JoinThread ==
    /\ drop_pc = "join"
    /\ thread_pc = "finished"
    /\ drop_pc' = "dropped"
    /\ UNCHANGED <<cancellation, registration, connection_pc, mqtt_task, sender_task,
                   twins_task, loader_task, sender_pc, saved, loaded, disconnect,
                   thread_pc, session_vars, chan_vars, twin_vars, diff_vars,
                   store_vars, build_vars, send_vars, inbox_vars, drain_vars,
                   callback_vars, cred_vars, skew_vars, snap_vars, watch_vars,
                   recv_vars>>

NextDrop ==
    \/ RegisterFirst
    \/ ConnectIothub
    \/ AwaitSubacks
    \/ AwaitTwins
    \/ MqttCancelled
    \/ MqttDisconnect
    \/ TwinsCancelled
    \/ LoaderSend
    \/ LoaderCancelled
    \/ SenderCancelled
    \/ SenderGetMessage
    \/ UploadSucceeds
    \/ ThreadAwaitConnection
    \/ ThreadAwaitTasks
    \/ DropClient
    \/ GraceEnds
    \/ JoinThread

\* The initial states of SpecDrop: its inputs, everything else at rest.
InitDrop ==
    InitClient /\ InitDropInputs /\ InitDiffIdle /\ InitStoreIdle /\ InitBuildIdle /\ InitSendIdle /\ InitInboxIdle /\ InitDrainIdle /\ InitCallbackIdle /\ InitCredIdle /\ InitSkewIdle /\ InitSnapIdle /\ InitWatchIdle /\ InitRecvIdle

SpecDrop == InitDrop /\ [][NextDrop]_vars

\* Every task gets to run and every timer expires.  Whether a registration
\* or an upload ever succeeds is the network's doing, and when the client
\* is dropped is the caller's.
FairSpecDrop ==
    /\ SpecDrop
    /\ WF_vars(ConnectIothub)
    /\ WF_vars(AwaitSubacks)
    /\ WF_vars(AwaitTwins)
    /\ WF_vars(MqttCancelled)
    /\ WF_vars(MqttDisconnect)
    /\ WF_vars(TwinsCancelled)
    /\ WF_vars(LoaderSend)
    /\ WF_vars(LoaderCancelled)
    /\ WF_vars(SenderCancelled)
    /\ WF_vars(SenderGetMessage)
    /\ WF_vars(ThreadAwaitConnection)
    /\ WF_vars(ThreadAwaitTasks)
    /\ WF_vars(GraceEnds)
    /\ WF_vars(JoinThread)

\* C18: once the drop of the client has begun it completes: the join of
\* the I/O thread returns.
C18_DropCompletes == (drop_pc \in {"grace", "join"}) ~> (drop_pc = "dropped")

(***************************************************************************)
(* The C2D inbox writer: CloudToDeviceHandler::handle parses the property  *)
(* bag of the topic, stores the message through the inbox channel and      *)
(* acknowledges the publish.                                               *)
(***************************************************************************)

PropertyKeys == {"k1"}

\* A property bag: each key at most once, with or without a value.
PropertyBags ==
    UNION {[keys -> {"absent", "v"}] : keys \in SUBSET PropertyKeys}

C2dContents == {"c1", "c2"}

\* What the broker may deliver: a payload and a topic whose property bag
\* parses or does not.
C2dPublishes ==
    [payload : C2dContents, parses : BOOLEAN, bag : PropertyBags]

\* Where the transaction of store can fail; "ok" is a commit.
StoreOutcomes == {"ok", "begin", "content", "property", "commit"}

\* CloudToDeviceMessage::new over the parsed bag: a key without a value
\* gets the empty string.
NewMessage(publish) ==
    [content |-> publish.payload,
     properties |-> [k \in DOMAIN publish.bag |->
                        IF publish.bag[k] = "absent" THEN "" ELSE publish.bag[k]]]

\* CloudToDeviceMessage::store: one transaction inserts the content row and
\* a row per property; an error before the commit drops the transaction
\* and with it every row it inserted.
store(rows, seq, m, outcome) ==
    IF outcome = "ok"
    THEN [ok |-> TRUE, id |-> seq + 1,
          rows |-> rows \cup {[id |-> seq + 1, content |-> m.content,
                               properties |-> m.properties]}]
    ELSE [ok |-> FALSE, id |-> None, rows |-> rows]

InitInboxInputs == InitInboxIdle

\* CloudToDeviceHandler::handle: a topic that does not parse ends the call;
\* otherwise the message goes to Sender::send, an error of which is logged,
\* and the publish is acknowledged either way.
C2dHandlePublish ==
    /\ Len(delivered) < MaxDeliveries
    /\ \E publish \in C2dPublishes, outcome \in StoreOutcomes :
        LET pkid == Len(delivered) + 1
            stored == store(inbox, inbox_seq, NewMessage(publish), outcome) IN
        /\ outcome = "property" => DOMAIN publish.bag # {}
        /\ delivered' = Append(delivered, publish)
        /\ IF ~publish.parses
           THEN UNCHANGED <<inbox, inbox_seq, inbox_saved, store_errors, acks>>
           ELSE /\ inbox' = stored.rows
                /\ inbox_seq' = IF stored.ok THEN stored.id ELSE inbox_seq
                /\ inbox_saved' = IF stored.ok THEN SendReplace(inbox_saved, stored.id)
                                  ELSE inbox_saved
                /\ store_errors' = IF stored.ok THEN store_errors
                                   ELSE store_errors \cup {pkid}
                /\ acks' = acks \cup {pkid}
    /\ UNCHANGED <<session_vars, chan_vars, twin_vars, diff_vars, store_vars,
                   build_vars, send_vars, drop_vars, drain_vars, callback_vars,
                   cred_vars, skew_vars, snap_vars, watch_vars, recv_vars>>

NextInbox ==
    \/ C2dHandlePublish

\* The initial states of SpecInbox: its inputs, everything else at rest.
InitInbox ==
    InitClient /\ InitInboxInputs /\ InitDiffIdle /\ InitStoreIdle /\ InitBuildIdle /\ InitSendIdle /\ InitDropIdle /\ InitDrainIdle /\ InitCallbackIdle /\ InitCredIdle /\ InitSkewIdle /\ InitSnapIdle /\ InitWatchIdle /\ InitRecvIdle

SpecInbox == InitInbox /\ [][NextInbox]_vars

\* C19: a publish is acknowledged only when its message was stored: no
\* publish whose store failed is among the acknowledged ones.
C19_AckOnlyAfterStore == acks \cap store_errors = {}

(***************************************************************************)
(* Desired patches buffered before the first full twin, and set_twins over *)
(* that buffer.                                                            *)
(***************************************************************************)

\* DeviceTwin::update_desired_properties, the None branch: no snapshot yet,
\* the patch goes to the back of the buffer whatever its version.
BufferDesiredPatch ==
    /\ ~desired.some
    /\ Len(desired_properties_updates) < MaxDrain
    /\ \E version \in 1..MaxVersion :
        desired_properties_updates' = Append(desired_properties_updates, version)
    /\ UNCHANGED <<desired, reported, stored_desired, stored_reported, notify_log,
                   last_patch, twin_run, desired_initialized, reported_initialized,
                   ready_pc, get_desired_result, reported_updates, reported_seq,
                   reported_last_saved, reported_last_received, session_vars,
                   chan_vars, diff_vars, store_vars, build_vars, send_vars, drop_vars,
                   inbox_vars, drain_vars, callback_vars, cred_vars, skew_vars,
                   snap_vars, watch_vars, recv_vars>>

\* DeviceTwin::set_twins with the twins of a GetTwins response:
\* set_desired_properties, then set_reported_properties unless the first
\* returned an error.
SetTwins ==
    \E dv \in 1..MaxVersion, rv \in 1..MaxVersion :
        LET d == SetDesiredProperties(desired, desired_properties_updates,
                                      stored_desired, notify_log, dv) IN
        /\ drained.calls < MaxSetTwins
        /\ drained' = [updates |-> desired_properties_updates, version |-> dv,
                       first |-> ~desired.some, ok |-> d.ok,
                       calls |-> drained.calls + 1]
        /\ desired' = d.desired
        /\ desired_properties_updates' = d.updates
        /\ stored_desired' = d.stored
        /\ notify_log' = d.log
        /\ reported' = IF d.ok THEN SetReportedProperties(reported, rv) ELSE reported
        /\ stored_reported' =
                IF d.ok /\ ~IgnoreOlder(rv, reported)
                    THEN SetReportedProperties(reported, rv)
                    ELSE stored_reported
        /\ desired_initialized' =
                (desired_initialized \/ (d.ok /\ ~IgnoreOlder(dv, desired)))
        /\ reported_initialized' =
                (reported_initialized \/ (d.ok /\ ~IgnoreOlder(rv, reported)))
        /\ UNCHANGED <<last_patch, twin_run, ready_pc, get_desired_result,
                       reported_updates, reported_seq, reported_last_saved,
                       reported_last_received, session_vars, chan_vars, diff_vars,
                       store_vars, build_vars, send_vars, drop_vars, inbox_vars,
                       callback_vars, cred_vars, skew_vars, snap_vars, watch_vars,
                       recv_vars>>

NextBuffer ==
    \/ BufferDesiredPatch
    \/ SetTwins

SpecBuffer == Init /\ [][NextBuffer]_vars

\* The versions s+1, s+2, ... that occur in the buffer without a break.
ContiguousRun(updates, s) ==
    {v \in (s + 1)..(s + Len(updates)) :
        \A w \in (s + 1)..v : \E i \in DOMAIN updates : updates[i] = w}

CallbackOutcomes == {"ok", "err", "panic"}

\* DesiredPropertiesUpdatedCallbackDispatcher::new: the channel is empty and
\* the thread waits in receiver.recv.
InitCallbackInputs == InitCallbackIdle

\* mpsc::Sender::send on the unbounded channel: it never waits; it fails
\* only when the receiver is gone, which is when the thread has left its
\* loop.
send(channel, pc, value) ==
    IF pc = "stopped"
        THEN [ok |-> FALSE, channel |-> channel]
        ELSE [ok |-> TRUE, channel |-> Append(channel, value)]

\* DeviceTwin::notify_desired_properties_updated with a dispatcher:
\* dispatch sends the properties of the next version to the channel and the
\* result goes back to the reconciler.
Dispatch ==
    /\ dispatched < MaxNotify
    /\ dispatch_sender = "some"
    /\ LET s == send(dispatch_channel, dispatcher_pc, dispatched + 1) IN
        /\ dispatch_channel' = s.channel
        /\ dispatch_results' = Append(dispatch_results, s.ok)
    /\ dispatched' = dispatched + 1
    /\ UNCHANGED <<dispatch_sender, dispatcher_pc, current, callback_log,
                   session_vars, chan_vars, twin_vars, diff_vars, store_vars,
                   build_vars, send_vars, drop_vars, inbox_vars, drain_vars,
                   cred_vars, skew_vars, snap_vars, watch_vars, recv_vars>>

\* The dispatcher thread, while let Ok(properties) = receiver.recv(): the
\* next notification is taken off the channel and the callback is entered.
DispatcherRecv ==
    /\ dispatcher_pc = "recv"
    /\ dispatch_channel # <<>>
    /\ current' = Head(dispatch_channel)
    /\ dispatch_channel' = Tail(dispatch_channel)
    /\ dispatcher_pc' = "callback"
    /\ UNCHANGED <<dispatch_sender, callback_log, dispatched, dispatch_results,
                   session_vars, chan_vars, twin_vars, diff_vars, store_vars,
                   build_vars, send_vars, drop_vars, inbox_vars, drain_vars,
                   cred_vars, skew_vars, snap_vars, watch_vars, recv_vars>>

\* A loop body without catch_unwind: a panic of the callback unwinds the
\* thread.
catch_unwind_Unwinds(outcome) == IF outcome = "panic" THEN "stopped" ELSE "recv"

\* The result of one pass of the loop body for a callback outcome:
\* catch_unwind turns a panic into an Err that is logged, an error returned
\* by the callback is logged inside the closure; the loop goes on in every
\* case.
catch_unwind(outcome) == "recv"

\* The callback returns (or panics) and the loop body finishes.
CallbackReturns ==
    /\ dispatcher_pc = "callback"
    /\ \E outcome \in CallbackOutcomes :
        /\ callback_log' = Append(callback_log, [version |-> current, outcome |-> outcome])
        /\ dispatcher_pc' = catch_unwind(outcome)
    /\ current' = None
    /\ UNCHANGED <<dispatch_channel, dispatch_sender, dispatched, dispatch_results,
                   session_vars, chan_vars, twin_vars, diff_vars, store_vars,
                   build_vars, send_vars, drop_vars, inbox_vars, drain_vars,
                   cred_vars, skew_vars, snap_vars, watch_vars, recv_vars>>

\* DesiredPropertiesUpdatedCallbackDispatcher::drop: the sender is dropped
\* (the join of the thread follows).
DropDispatcher ==
    /\ dispatch_sender = "some"
    /\ dispatch_sender' = "none"
    /\ UNCHANGED <<dispatch_channel, dispatcher_pc, current, callback_log, dispatched,
                   dispatch_results, session_vars, chan_vars, twin_vars, diff_vars,
                   store_vars, build_vars, send_vars, drop_vars, inbox_vars,
                   drain_vars, cred_vars, skew_vars, snap_vars, watch_vars, recv_vars>>

\* receiver.recv returns Err once the channel is empty and the sender is
\* gone: the thread leaves its loop.
DispatcherStops ==
    /\ dispatcher_pc = "recv"
    /\ dispatch_channel = <<>>
    /\ dispatch_sender = "none"
    /\ dispatcher_pc' = "stopped"
    /\ UNCHANGED <<dispatch_channel, dispatch_sender, current, callback_log,
                   dispatched, dispatch_results, session_vars, chan_vars, twin_vars,
                   diff_vars, store_vars, build_vars, send_vars, drop_vars,
                   inbox_vars, drain_vars, cred_vars, skew_vars, snap_vars,
                   watch_vars, recv_vars>>

NextCallback ==
    \/ Dispatch
    \/ DispatcherRecv
    \/ CallbackReturns
    \/ DropDispatcher
    \/ DispatcherStops

\* The initial states of SpecCallback: a new dispatcher, everything else at
\* rest.
InitCallback ==
    InitClient /\ InitCallbackInputs /\ InitDiffIdle /\ InitStoreIdle /\ InitBuildIdle /\ InitSendIdle /\ InitDropIdle /\ InitInboxIdle /\ InitDrainIdle /\ InitCredIdle /\ InitSkewIdle /\ InitSnapIdle /\ InitWatchIdle /\ InitRecvIdle

SpecCallback == InitCallback /\ [][NextCallback]_vars

\* The thread is scheduled, and the user's callback comes back (with a
\* value, an error or a panic) from every call.
FairSpecCallback ==
    /\ SpecCallback
    /\ WF_vars(DispatcherRecv)
    /\ WF_vars(CallbackReturns)
    /\ WF_vars(DispatcherStops)

\* ---------------------------------------------------------------------
\* The credential engine and the event loop's connection errors
\* (iothub/token_handler.rs, iothub/eventloop.rs)

\* enum RegistrationCommand
CommandKinds == {"RefreshRegistrationToken", "RefreshRegistration"}

\* The errors rumqttc's poll can return: ConnectionRefused with a return
\* code (the first four), or any other ConnectionError ("Io").
ConnectionErrors ==
    {"NotAuthorized", "BadUserNamePassword", "ServiceUnavailable", "BadClientId", "Io"}

\* The match of process_notification on the cause:
\* ConnectionRefused(NotAuthorized | BadUserNamePassword | ServiceUnavailable)
IsRefreshCause_Any(e) == TRUE

IsRefreshCause(e) == e \in {"NotAuthorized", "BadUserNamePassword", "ServiceUnavailable"}

\* Instants are only ever compared with each other, so after every step
\* they are renumbered by their rank among the instants still held (the
\* clock, the two last attempts and the commands' instants).
SetTimes(n, cmds, lt, lr) ==
    LET held == {n, lt, lr} \cup {cmds[i].time : i \in 1..Len(cmds)}
        rank(t) == Cardinality({u \in held : u < t})
    IN
    /\ now' = rank(n)
    /\ commands' = [i \in 1..Len(cmds) |-> [kind |-> cmds[i].kind, time |-> rank(cmds[i].time)]]
    /\ last_token_refresh_attempt' = rank(lt)
    /\ last_registration_refresh_attempt' = rank(lr)

\* TokenHandler::init and connect_iothub have run.
InitCredInputs == InitCredIdle

\* A handler that leaves the options as they are.
set_credentials_Keep(old_password, watch) == old_password

\* process_notification, options.set_credentials with the SAS of the
\* registration read by borrow_and_update: the new password.
set_credentials(old_password, watch) == watch.sas

\* The SAS the engine can have issued within the bounds.
SasNumbers == 1..(MaxExpiries + MaxFaults + 1)

\* EventLoop::process_notification for Err(e).
process_notification(e) ==
    /\ el_pc = "poll"
    /\ (~cancellation /\ ~registration_watch.changed /\ IsRefreshCause(e))
            => Len(commands) < MaxCommands
    /\ state' = "ConnectionError"
    /\ state_unseen' = TRUE
    /\ connected' = FALSE
    /\ IF cancellation
        THEN /\ last_error' = [cause |-> e, unseen |-> registration_watch.changed,
                               cancelled |-> TRUE, sent |-> FALSE]
             /\ UNCHANGED <<registration_watch, password, commands, el_pc>>
        ELSE IF registration_watch.changed
            THEN /\ password' = set_credentials(password, registration_watch)
                 /\ registration_watch' = [registration_watch EXCEPT !.changed = FALSE]
                 /\ last_error' = [cause |-> e, unseen |-> TRUE,
                                   cancelled |-> FALSE, sent |-> FALSE]
                 /\ UNCHANGED <<commands, el_pc>>
            ELSE /\ commands' = IF IsRefreshCause(e)
                     THEN Append(commands, [kind |-> "RefreshRegistration", time |-> now])
                     ELSE commands
                 /\ el_pc' = "sleep"
                 /\ last_error' = [cause |-> e, unseen |-> FALSE,
                                   cancelled |-> FALSE, sent |-> IsRefreshCause(e)]
                 /\ UNCHANGED <<registration_watch, password>>
    /\ UNCHANGED <<outbox, msg_seq, adding, latest_msg_id, latest_unseen, loader_pc,
                   last_id, messages, message_queue, mqtt_requests, mqtt_pending,
                   outgoing_pub, last_pkid, pending_d2c, errors, was_disconnected,
                   requests, rid_seq, wait_pc, cnt, run, handed_log, published_log,
                   confirmed, removed_log, stored_before, enq_during_wait, edge_open,
                   left_at_drop, twin_sent, now, last_token_refresh_attempt,
                   last_registration_refresh_attempt, handler_pc, retry, min_valid,
                   sas_expired, token_expired, token_rejected, expiries, last_command,
                   chan_vars, twin_vars, diff_vars, store_vars, build_vars, send_vars,
                   drop_vars, inbox_vars, drain_vars, callback_vars, skew_vars,
                   snap_vars, watch_vars, recv_vars>>

\* poll tries to connect with a SAS the hub no longer accepts: the hub
\* refuses the connection with NotAuthorized.
ConnectRefused ==
    /\ ~connected
    /\ password < min_valid
    /\ process_notification("NotAuthorized")
    /\ UNCHANGED faults

\* The SAS of the open connection is no longer accepted: the hub closes the
\* connection and poll returns an I/O error.
HubDisconnects ==
    /\ connected
    /\ password < min_valid
    /\ process_notification("Io")
    /\ UNCHANGED faults

\* poll returns an error for any other reason (the network, a hub that is
\* not available, ...).
ConnectionFault ==
    /\ faults < MaxFaults
    /\ faults' = faults + 1
    /\ \E e \in ConnectionErrors : process_notification(e)

\* process_notification, the end of the 5 second backoff.
BackoffEnds ==
    /\ el_pc = "sleep"
    /\ el_pc' = "poll"
    /\ UNCHANGED <<now, commands, last_token_refresh_attempt,
                   last_registration_refresh_attempt, handler_pc, retry,
                   registration_watch, password, min_valid, sas_expired,
                   token_expired, token_rejected, faults, expiries, last_error,
                   last_command, session_vars, chan_vars, twin_vars, diff_vars,
                   store_vars, build_vars, send_vars, drop_vars, inbox_vars,
                   drain_vars, callback_vars, skew_vars, snap_vars, watch_vars,
                   recv_vars>>

\* poll connects with the SAS of the MQTT options, which the hub accepts,
\* and process_incoming_message sees the ConnAck.
Reconnect ==
    /\ el_pc = "poll"
    /\ ~connected
    /\ password >= min_valid
    /\ connected' = TRUE
    /\ state' = "Ready"
    /\ state_unseen' = TRUE
    /\ UNCHANGED <<outbox, msg_seq, adding, latest_msg_id, latest_unseen, loader_pc,
                   last_id, messages, message_queue, mqtt_requests, mqtt_pending,
                   outgoing_pub, last_pkid, pending_d2c, errors, was_disconnected,
                   requests, rid_seq, wait_pc, cnt, run, handed_log, published_log,
                   confirmed, removed_log, stored_before, enq_during_wait, edge_open,
                   left_at_drop, twin_sent, chan_vars, twin_vars, diff_vars,
                   store_vars, build_vars, send_vars, drop_vars, inbox_vars,
                   drain_vars, callback_vars, cred_vars, skew_vars, snap_vars,
                   watch_vars, recv_vars>>

\* IotHubConnection::drop cancels the session token.
CancelSession ==
    /\ ~cancellation
    /\ cancellation' = TRUE
    /\ UNCHANGED <<registration, connection_pc, mqtt_task, sender_task, twins_task,
                   loader_task, sender_pc, saved, loaded, disconnect, thread_pc,
                   drop_pc, session_vars, chan_vars, twin_vars, diff_vars, store_vars,
                   build_vars, send_vars, inbox_vars, drain_vars, callback_vars,
                   cred_vars, skew_vars, snap_vars, watch_vars, recv_vars>>

\* EventLoop::run, the cancelled branch of the select: the loop ends.
RunCancelled ==
    /\ el_pc = "poll"
    /\ cancellation
    /\ el_pc' = "stopped"
    /\ UNCHANGED <<now, commands, last_token_refresh_attempt,
                   last_registration_refresh_attempt, handler_pc, retry,
                   registration_watch, password, min_valid, sas_expired,
                   token_expired, token_rejected, faults, expiries, last_error,
                   last_command, session_vars, chan_vars, twin_vars, diff_vars,
                   store_vars, build_vars, send_vars, drop_vars, inbox_vars,
                   drain_vars, callback_vars, skew_vars, snap_vars, watch_vars,
                   recv_vars>>

\* TokenHandler::refresh_tokens, the top of the second loop: a command is
\* sent for the SAS and for the registration token when its time has
\* passed.
CheckExpiry ==
    /\ handler_pc = "check"
    /\ LET with_sas == IF sas_expired
               THEN Append(commands, [kind |-> "RefreshRegistration", time |-> now])
               ELSE commands
       IN commands' = IF token_expired
               THEN Append(with_sas, [kind |-> "RefreshRegistrationToken", time |-> now])
               ELSE with_sas
    /\ handler_pc' = "select"
    /\ UNCHANGED <<now, last_token_refresh_attempt, last_registration_refresh_attempt,
                   retry, registration_watch, password, el_pc, min_valid, sas_expired,
                   token_expired, token_rejected, faults, expiries, last_error,
                   last_command, session_vars, chan_vars, twin_vars, diff_vars,
                   store_vars, build_vars, send_vars, drop_vars, inbox_vars,
                   drain_vars, callback_vars, skew_vars, snap_vars, watch_vars,
                   recv_vars>>

\* refresh_tokens, the select: with no command in the channel the 60 second
\* sleep ends first.
SelectSleep ==
    /\ handler_pc = "select"
    /\ commands = <<>>
    /\ handler_pc' = "drain"
    /\ UNCHANGED <<now, commands, last_token_refresh_attempt,
                   last_registration_refresh_attempt, retry, registration_watch,
                   password, el_pc, min_valid, sas_expired, token_expired,
                   token_rejected, faults, expiries, last_error, last_command,
                   session_vars, chan_vars, twin_vars, diff_vars, store_vars,
                   build_vars, send_vars, drop_vars, inbox_vars, drain_vars,
                   callback_vars, skew_vars, snap_vars, watch_vars, recv_vars>>

\* The results of TokenHandler::try_refresh_registration: drs::register
\* answers 401 for a registration token the platform rejects; otherwise the
\* call succeeds or fails for another reason.
try_refresh_registration(rejected) == IF rejected THEN {"invalid"} ELSE {"ok", "error"}

\* The results of TokenHandler::try_refresh_token: dps::refresh fails, or
\* it succeeds and the new token is saved, or the save fails.
try_refresh_token == {"ok", "error", "store_error"}

\* The check of process_command on the command's instant.
IsDue_Always(time, last_attempt) == TRUE

IsDue(time, last_attempt) == time >= last_attempt

\* TokenHandler::process_command for the next command of the channel (taken
\* by the select or by try_recv), up to the pause that follows a failure.
\* The call takes time: the instant read after it is later than any read
\* before it.
ProcessCommand ==
    /\ handler_pc \in {"select", "drain"}
    /\ commands # <<>>
    /\ LET command == Head(commands)
           token == command.kind = "RefreshRegistrationToken"
           last_attempt == IF token THEN last_token_refresh_attempt
                                    ELSE last_registration_refresh_attempt
       IN IF ~IsDue(command.time, last_attempt)
           THEN /\ SetTimes(now, Tail(commands), last_token_refresh_attempt,
                            last_registration_refresh_attempt)
                /\ handler_pc' = "drain"
                /\ last_command' = [kind |-> command.kind, stale |-> TRUE, result |-> "none"]
                /\ UNCHANGED <<retry, registration_watch, sas_expired, token_expired,
                               token_rejected>>
           ELSE \E result \in (IF token THEN try_refresh_token
                                        ELSE try_refresh_registration(token_rejected)) :
                /\ SetTimes(now + 1, Tail(commands),
                            IF token THEN now + 1 ELSE last_token_refresh_attempt,
                            IF token THEN last_registration_refresh_attempt ELSE now + 1)
                /\ last_command' = [kind |-> command.kind, stale |-> command.time < last_attempt,
                                 result |-> result]
                /\ handler_pc' = IF result = "ok" THEN "drain" ELSE "pause"
                /\ retry' = IF result = "ok" THEN retry ELSE command.kind
                /\ IF token
                    THEN /\ token_expired' = (token_expired /\ result = "error")
                         /\ token_rejected' = (token_rejected /\ result = "error")
                         /\ UNCHANGED <<registration_watch, sas_expired>>
                    ELSE /\ registration_watch' = IF result = "ok"
                             THEN [sas |-> registration_watch.sas + 1, changed |-> TRUE]
                             ELSE registration_watch
                         /\ sas_expired' = (sas_expired /\ result # "ok")
                         /\ UNCHANGED <<token_expired, token_rejected>>
    /\ UNCHANGED <<password, el_pc, min_valid, faults, expiries, last_error,
                   session_vars, chan_vars, twin_vars, diff_vars, store_vars,
                   build_vars, send_vars, drop_vars, inbox_vars, drain_vars,
                   callback_vars, skew_vars, snap_vars, watch_vars, recv_vars>>

\* refresh_tokens, try_recv on the empty channel: back to the top of the
\* loop.
DrainEmpty ==
    /\ handler_pc = "drain"
    /\ commands = <<>>
    /\ handler_pc' = "check"
    /\ UNCHANGED <<now, commands, last_token_refresh_attempt,
                   last_registration_refresh_attempt, retry, registration_watch,
                   password, el_pc, min_valid, sas_expired, token_expired,
                   token_rejected, faults, expiries, last_error, last_command,
                   session_vars, chan_vars, twin_vars, diff_vars, store_vars,
                   build_vars, send_vars, drop_vars, inbox_vars, drain_vars,
                   callback_vars, skew_vars, snap_vars, watch_vars, recv_vars>>

\* process_command after a failure: the 30 second pause ends and the
\* command is sent again with the instant read then.
PauseEnds ==
    /\ handler_pc = "pause"
    /\ SetTimes(now + 1, Append(commands, [kind |-> retry, time |-> now + 1]),
                last_token_refresh_attempt, last_registration_refresh_attempt)
    /\ handler_pc' = "drain"
    /\ retry' = "none"
    /\ UNCHANGED <<registration_watch, password, el_pc, min_valid, sas_expired,
                   token_expired, token_rejected, faults, expiries, last_error,
                   last_command, session_vars, chan_vars, twin_vars, diff_vars,
                   store_vars, build_vars, send_vars, drop_vars, inbox_vars,
                   drain_vars, callback_vars, skew_vars, snap_vars, watch_vars,
                   recv_vars>>

\* Time passes.
Tick ==
    /\ SetTimes(now + 1, commands, last_token_refresh_attempt,
                last_registration_refresh_attempt)
    /\ UNCHANGED <<handler_pc, retry, registration_watch, password, el_pc, min_valid,
                   sas_expired, token_expired, token_rejected, faults, expiries,
                   last_error, last_command, session_vars, chan_vars, twin_vars,
                   diff_vars, store_vars, build_vars, send_vars, drop_vars,
                   inbox_vars, drain_vars, callback_vars, skew_vars, snap_vars,
                   watch_vars, recv_vars>>

\* The validity of the latest SAS passes: the hub accepts none of the SAS
\* issued so far.
SasExpires ==
    /\ expiries < MaxExpiries
    /\ expiries' = expiries + 1
    /\ sas_expired' = TRUE
    /\ min_valid' = registration_watch.sas + 1
    /\ UNCHANGED <<now, commands, last_token_refresh_attempt,
                   last_registration_refresh_attempt, handler_pc, retry,
                   registration_watch, password, el_pc, token_expired, token_rejected,
                   faults, last_error, last_command, session_vars, chan_vars,
                   twin_vars, diff_vars, store_vars, build_vars, send_vars, drop_vars,
                   inbox_vars, drain_vars, callback_vars, skew_vars, snap_vars,
                   watch_vars, recv_vars>>

\* The expiration of the registration token passes.
TokenExpires ==
    /\ expiries < MaxExpiries
    /\ ~token_expired
    /\ expiries' = expiries + 1
    /\ token_expired' = TRUE
    /\ UNCHANGED <<now, commands, last_token_refresh_attempt,
                   last_registration_refresh_attempt, handler_pc, retry,
                   registration_watch, password, el_pc, min_valid, sas_expired,
                   token_rejected, faults, last_error, last_command, session_vars,
                   chan_vars, twin_vars, diff_vars, store_vars, build_vars, send_vars,
                   drop_vars, inbox_vars, drain_vars, callback_vars, skew_vars,
                   snap_vars, watch_vars, recv_vars>>

\* The platform starts to reject the registration token.
TokenRejected ==
    /\ expiries < MaxExpiries
    /\ ~token_rejected
    /\ expiries' = expiries + 1
    /\ token_rejected' = TRUE
    /\ UNCHANGED <<now, commands, last_token_refresh_attempt,
                   last_registration_refresh_attempt, handler_pc, retry,
                   registration_watch, password, el_pc, min_valid, sas_expired,
                   token_expired, faults, last_error, last_command, session_vars,
                   chan_vars, twin_vars, diff_vars, store_vars, build_vars, send_vars,
                   drop_vars, inbox_vars, drain_vars, callback_vars, skew_vars,
                   snap_vars, watch_vars, recv_vars>>

NextCred ==
    \/ ConnectRefused
    \/ HubDisconnects
    \/ ConnectionFault
    \/ BackoffEnds
    \/ Reconnect
    \/ CancelSession
    \/ RunCancelled
    \/ CheckExpiry
    \/ SelectSleep
    \/ ProcessCommand
    \/ DrainEmpty
    \/ PauseEnds
    \/ Tick
    \/ SasExpires
    \/ TokenExpires
    \/ TokenRejected

\* The initial states of SpecCred: a registered, connected session,
\* everything else at rest.
InitCred ==
    InitClient /\ InitCredInputs /\ InitDiffIdle /\ InitStoreIdle /\ InitBuildIdle /\ InitSendIdle /\ InitDropIdle /\ InitInboxIdle /\ InitDrainIdle /\ InitCallbackIdle /\ InitSkewIdle /\ InitSnapIdle /\ InitWatchIdle /\ InitRecvIdle

SpecCred == InitCred /\ [][NextCred]_vars

\* The event loop thread and the engine's task are scheduled, the sleeps
\* end, and the hub answers a connection attempt.
FairSpecCred ==
    /\ SpecCred
    /\ WF_vars(ConnectRefused)
    /\ WF_vars(HubDisconnects)
    /\ WF_vars(BackoffEnds)
    /\ WF_vars(Reconnect)
    /\ WF_vars(RunCancelled)
    /\ WF_vars(CheckExpiry)
    /\ WF_vars(SelectSleep)
    /\ WF_vars(ProcessCommand)
    /\ WF_vars(DrainEmpty)
    /\ WF_vars(PauseEnds)

\* ---------------------------------------------------------------------
\* TokenHandler::expect_clockskew (iothub/token_handler.rs)

\* chrono::Duration::try_minutes(n), in half minutes.
try_minutes(n) == 2 * n

\* Ord::min on two instants.
OrdMin(a, b) == IF a <= b THEN a ELSE b

\* chrono's Duration / 2: the quotient is truncated towards zero.
HalfOf(d) == IF d >= 0 THEN d \div 2 ELSE -((-d) \div 2)

\* An expect_clockskew that shifts by nothing.
expect_clockskew_Identity(exp, current_time) == exp

\* TokenHandler::expect_clockskew(expiration) with Utc::now() = current_time.
expect_clockskew(exp, current_time) ==
    LET expiration_duration == exp - current_time
        expiration_datetime == exp - HalfOf(expiration_duration)
        minutes_25 == try_minutes(25)
        minutes_10 == try_minutes(10)
    IN IF expiration_duration > minutes_25
        THEN OrdMin(exp - minutes_10, expiration_datetime)
        ELSE expiration_datetime

\* Any clock reading and any expiration with a remaining lifetime of whole
\* minutes, past ones included.
InitSkewInputs ==
    /\ utc_now \in 0..MaxClock
    /\ \E lifetime \in -MaxLifetime..MaxLifetime : expiration = utc_now + try_minutes(lifetime)
    /\ skewed = <<>>

\* A call of expect_clockskew.
ExpectClockskew ==
    /\ skewed = <<>>
    /\ skewed' = <<expect_clockskew(expiration, utc_now)>>
    /\ UNCHANGED <<utc_now, expiration, session_vars, chan_vars, twin_vars, diff_vars,
                   store_vars, build_vars, send_vars, drop_vars, inbox_vars,
                   drain_vars, callback_vars, cred_vars, snap_vars, watch_vars,
                   recv_vars>>

NextSkew ==
    \/ ExpectClockskew

\* The initial states of SpecSkew: its inputs, everything else at rest.
InitSkew ==
    InitClient /\ InitSkewInputs /\ InitDiffIdle /\ InitStoreIdle /\ InitBuildIdle /\ InitSendIdle /\ InitDropIdle /\ InitInboxIdle /\ InitDrainIdle /\ InitCallbackIdle /\ InitCredIdle /\ InitSnapIdle /\ InitWatchIdle /\ InitRecvIdle

SpecSkew == InitSkew /\ [][NextSkew]_vars

\* C31: the instant returned is earlier than the expiration by half of the
\* remaining lifetime, and the shift is never more than 10 minutes.
C31_SkewHalfAtMostTenMinutes ==
    skewed # <<>> =>
        /\ expiration - skewed[1] = (expiration - utc_now) \div 2
        /\ expiration - skewed[1] <= try_minutes(10)

\* ---------------------------------------------------------------------------
\* Twin snapshots in the store: save_twin_properties and load_twin_properties.
\* ---------------------------------------------------------------------------

TwinTypes == {"desired", "reported"}

\* Twins that are saved: a version stands for the whole document.
SnapshotTwins == [version : 1..MaxSnapshotVersion]

\* serde_json::to_string(twin) and serde_json::from_str(properties).
to_string(twin) == <<"json", twin.version>>
from_str(json) == [version |-> json[2]]

\* Table Twins as the schema declares it: "two rows keyed by kind", so a row
\* that is inserted takes the place of the row of its kind; ids come from the
\* AUTOINCREMENT counter.
InsertIntoTwins(rows, seq, twin_type, json) ==
    {r \in rows : r.type # twin_type}
        \cup {[id |-> seq + 1, type |-> twin_type, properties |-> json]}

\* A load that forgets the WHERE clause: the newest row of any kind.
load_twin_properties_AnyType(rows, twin_type) ==
    IF rows = {} THEN <<>>
    ELSE <<from_str((CHOOSE r \in rows : \A q \in rows : q.id <= r.id).properties)>>

\* SqliteStore::load_twin_properties: SELECT properties FROM Twins
\* WHERE type = ? ORDER BY id DESC LIMIT 1.
load_twin_properties(rows, twin_type) ==
    LET matching == {r \in rows : r.type = twin_type} IN
    IF matching = {} THEN <<>>
    ELSE <<from_str((CHOOSE r \in matching :
                          \A q \in matching : q.id <= r.id).properties)>>

\* SqliteStore::save_twin_properties (save_desired_properties and
\* save_reported_properties pass their kind).
save_twin_properties ==
    \E twin_type \in TwinTypes, twin \in SnapshotTwins :
        /\ twins_seq < MaxSnapshots
        /\ twins_rows' = InsertIntoTwins(twins_rows, twins_seq, twin_type,
                                         to_string(twin))
        /\ twins_seq' = twins_seq + 1
        /\ snapshot_saved' = [snapshot_saved EXCEPT ![twin_type] = <<twin>>]
        /\ snapshot_loaded' = <<>>
        /\ UNCHANGED <<session_vars, chan_vars, twin_vars, diff_vars, store_vars,
                       build_vars, send_vars, drop_vars, inbox_vars, drain_vars,
                       callback_vars, cred_vars, skew_vars, watch_vars, recv_vars>>

\* load_desired_properties / load_reported_properties.
LoadTwinProperties ==
    \E twin_type \in TwinTypes :
        /\ snapshot_loaded' =
                <<twin_type, load_twin_properties(twins_rows, twin_type)>>
        /\ UNCHANGED <<twins_rows, twins_seq, snapshot_saved, session_vars, chan_vars,
                       twin_vars, diff_vars, store_vars, build_vars, send_vars,
                       drop_vars, inbox_vars, drain_vars, callback_vars, cred_vars,
                       skew_vars, watch_vars, recv_vars>>

NextSnap ==
    \/ save_twin_properties
    \/ LoadTwinProperties

InitSnap == InitClient /\ InitDiffIdle /\ InitStoreIdle /\ InitBuildIdle /\ InitSendIdle /\ InitDropIdle /\ InitInboxIdle /\ InitDrainIdle /\ InitCallbackIdle /\ InitCredIdle /\ InitSkewIdle /\ InitSnapIdle /\ InitWatchIdle /\ InitRecvIdle

\* Saves and loads of twin snapshots on an empty store.
SpecSnap == InitSnap /\ [][NextSnap]_vars

(***************************************************************************)
(* The desired-properties change watch: the middleware sends on it after   *)
(* set_twins and after a desired patch, the client awaits it in connect    *)
(* and in desired_properties_changed.                                      *)
(***************************************************************************)

\* watch::Sender::send(version)
WatchSend(version) == [version |-> version, unseen |-> TRUE]

\* TwinsMiddleware::update_desired_properties: the reconciler's
\* update_desired_properties, then, unless it returned an error, a send on
\* the watch.
update_desired_properties ==
    \E version \in 1..MaxVersion :
        /\ Len(notify_log) < MaxNotify
        /\ IF ~desired.some
               THEN /\ Len(desired_properties_updates) < MaxBuf
                    /\ desired_properties_updates' =
                           Append(desired_properties_updates, version)
                    /\ desired_properties_changed' = WatchSend(version)
                    /\ UNCHANGED <<desired, reported, stored_desired, stored_reported,
                                   notify_log, last_patch, twin_run,
                                   desired_initialized, reported_initialized,
                                   ready_pc, get_desired_result, reported_updates,
                                   reported_seq, reported_last_saved,
                                   reported_last_received, changed_result,
                                   session_vars, chan_vars, diff_vars, store_vars,
                                   build_vars, send_vars, drop_vars, inbox_vars,
                                   drain_vars, callback_vars, cred_vars, skew_vars,
                                   snap_vars, recv_vars>>
               ELSE IF IsNextVersion(version, desired)
                   THEN /\ desired' = Merge(desired, version)
                        /\ stored_desired' = Merge(desired, version)
                        /\ notify_log' = Append(notify_log, version)
                        /\ desired_initialized' = TRUE
                        /\ desired_properties_changed' = WatchSend(version)
                        /\ UNCHANGED <<reported, desired_properties_updates,
                                       stored_reported, last_patch, twin_run,
                                       reported_initialized, ready_pc,
                                       get_desired_result, reported_updates,
                                       reported_seq, reported_last_saved,
                                       reported_last_received, changed_result,
                                       session_vars, chan_vars, diff_vars, store_vars,
                                       build_vars, send_vars, drop_vars, inbox_vars,
                                       drain_vars, callback_vars, cred_vars,
                                       skew_vars, snap_vars, recv_vars>>
                   ELSE UNCHANGED vars

\* TwinsMiddleware::set_twins: the reconciler's set_twins, then, unless it
\* returned an error, a send of the response's desired version on the watch.
set_twins ==
    \E dv \in 1..MaxVersion, rv \in 1..MaxVersion :
        LET d == SetDesiredProperties(desired, desired_properties_updates,
                                      stored_desired, notify_log, dv) IN
        /\ Len(notify_log) < MaxNotify
        /\ desired' = d.desired
        /\ desired_properties_updates' = d.updates
        /\ stored_desired' = d.stored
        /\ notify_log' = d.log
        /\ reported' = IF d.ok THEN SetReportedProperties(reported, rv) ELSE reported
        /\ stored_reported' =
                IF d.ok /\ ~IgnoreOlder(rv, reported)
                    THEN SetReportedProperties(reported, rv)
                    ELSE stored_reported
        /\ desired_initialized' =
                (desired_initialized \/ (d.ok /\ ~IgnoreOlder(dv, desired)))
        /\ reported_initialized' =
                (reported_initialized \/ (d.ok /\ ~IgnoreOlder(rv, reported)))
        /\ desired_properties_changed' =
                IF d.ok THEN WatchSend(dv) ELSE desired_properties_changed
        /\ UNCHANGED <<last_patch, twin_run, ready_pc, get_desired_result,
                       reported_updates, reported_seq, reported_last_saved,
                       reported_last_received, changed_result, session_vars,
                       chan_vars, diff_vars, store_vars, build_vars, send_vars,
                       drop_vars, inbox_vars, drain_vars, callback_vars, cred_vars,
                       skew_vars, snap_vars, recv_vars>>

\* IotHubTwinsClient::desired_properties_changed: changed() on the watch
\* completes, then the desired snapshot is read (expect panics on None).
DesiredPropertiesChanged ==
    /\ desired_properties_changed.unseen
    /\ desired_properties_changed' =
            [desired_properties_changed EXCEPT !.unseen = FALSE]
    /\ changed_result' =
            [called |-> TRUE, absent |-> ~desired.some,
             version |-> IF desired.some THEN desired.version ELSE 0]
    /\ UNCHANGED <<session_vars, chan_vars, twin_vars, diff_vars, store_vars,
                   build_vars, send_vars, drop_vars, inbox_vars, drain_vars,
                   callback_vars, cred_vars, skew_vars, snap_vars, recv_vars>>

NextWatch ==
    \/ update_desired_properties
    \/ set_twins
    \/ DesiredPropertiesChanged

InitWatch == InitClient /\ InitDiffIdle /\ InitStoreIdle /\ InitBuildIdle /\ InitSendIdle /\ InitDropIdle /\ InitInboxIdle /\ InitDrainIdle /\ InitCallbackIdle /\ InitCredIdle /\ InitSkewIdle /\ InitSnapIdle /\ InitWatchIdle /\ InitRecvIdle

\* The change watch over the reconciler, from a new database file.
SpecWatch == InitWatch /\ [][NextWatch]_vars

(***************************************************************************)
(* The outbox loader with its two reads apart: the query of the store is   *)
(* an await, and the latest-id watch is read only after it has returned,   *)
(* so adds by other tasks fall between the two.                            *)
(***************************************************************************)

\* sqlite.list_messages_after(last_id).await: a non-empty result is taken
\* for forwarding, an empty one leads to the read of the watch.
LoaderQuery ==
    /\ loader_pc = "list"
    /\ LET rows == ListMessagesAfter(outbox, last_id) IN
        IF rows # <<>>
            THEN /\ messages' = rows
                 /\ last_id' = rows[Len(rows)]
                 /\ loader_pc' = "forward"
            ELSE /\ loader_pc' = "check"
                 /\ UNCHANGED <<messages, last_id>>
    /\ UNCHANGED <<outbox, msg_seq, adding, latest_msg_id, latest_unseen,
                   message_queue, mqtt_requests, mqtt_pending, outgoing_pub,
                   last_pkid, connected, pending_d2c, state, state_unseen, errors,
                   was_disconnected, requests, rid_seq, wait_pc, cnt, run, handed_log,
                   published_log, confirmed, removed_log, stored_before,
                   enq_during_wait, edge_open, left_at_drop, twin_sent, chan_vars,
                   twin_vars, diff_vars, store_vars, build_vars, send_vars, drop_vars,
                   inbox_vars, drain_vars, callback_vars, cred_vars, skew_vars,
                   snap_vars, watch_vars, recv_vars>>

\* else if *latest_msg_id_receiver.borrow_and_update() == last_id: the value
\* is marked seen, and the task waits for a change only if it equals last_id.
LoaderCheck ==
    /\ loader_pc = "check"
    /\ latest_unseen' = FALSE
    /\ loader_pc' = IF latest_msg_id = last_id THEN "wait" ELSE "list"
    /\ UNCHANGED <<outbox, msg_seq, adding, latest_msg_id, last_id, messages,
                   message_queue, mqtt_requests, mqtt_pending, outgoing_pub,
                   last_pkid, connected, pending_d2c, state, state_unseen, errors,
                   was_disconnected, requests, rid_seq, wait_pc, cnt, run, handed_log,
                   published_log, confirmed, removed_log, stored_before,
                   enq_during_wait, edge_open, left_at_drop, twin_sent, chan_vars,
                   twin_vars, diff_vars, store_vars, build_vars, send_vars, drop_vars,
                   inbox_vars, drain_vars, callback_vars, cred_vars, skew_vars,
                   snap_vars, watch_vars, recv_vars>>

NextLoader ==
    \/ AddStore
    \/ AddNotify
    \/ LoaderQuery
    \/ LoaderCheck
    \/ LoaderForward
    \/ LoaderWake
    \/ SenderPublish
    \/ OutgoingPublish
    \/ IncomingPubAck

InitLoader == InitClient /\ InitDiffIdle /\ InitStoreIdle /\ InitBuildIdle /\ InitSendIdle /\ InitDropIdle /\ InitInboxIdle /\ InitDrainIdle /\ InitCallbackIdle /\ InitCredIdle /\ InitSkewIdle /\ InitSnapIdle /\ InitWatchIdle /\ InitRecvIdle

\* One run of the outbox with concurrent callers of Producer::add.
SpecLoader == InitLoader /\ [][NextLoader]_vars

\* The same run with every task scheduled fairly and a broker that
\* acknowledges what it receives; callers that have stored a message go on to
\* send its id.
FairSpecLoader ==
    /\ SpecLoader
    /\ WF_vars(AddNotify)
    /\ WF_vars(LoaderQuery)
    /\ WF_vars(LoaderCheck)
    /\ WF_vars(LoaderForward)
    /\ WF_vars(LoaderWake)
    /\ WF_vars(SenderPublish)
    /\ WF_vars(OutgoingPublish)
    /\ WF_vars(IncomingPubAck)

(***************************************************************************)
(* TwinsMiddleware::process: the select over the durable channel's recv    *)
(* and the other branches.  A branch that completes drops the pending recv *)
(* wherever it is; the next iteration calls recv anew.                     *)
(***************************************************************************)

OtherBranches == {"get_twins", "desired", "response", "state"}

\* Receiver::wait_new returns: the watch holds an id above last_received.
RecvWaitNew ==
    /\ recv_pc = "wait_new"
    /\ ~MustWait(reported_last_saved, reported_last_received)
    /\ recv_pc' = "load"
    /\ UNCHANGED <<handled, last_branch, drops, load_drops, run_base, session_vars,
                   chan_vars, twin_vars, diff_vars, store_vars, build_vars, send_vars,
                   drop_vars, inbox_vars, drain_vars, callback_vars, cred_vars,
                   skew_vars, snap_vars, watch_vars>>

\* Receiver::recv after wait_new: T::load, self.last_received = Some(obj.id())
\* and the select arm, which hands the update to update_reported_properties.
\* A load that finds no row is an error, which process logs.
RecvLoad ==
    /\ recv_pc = "load"
    /\ recv_pc' = "wait_new"
    /\ LET update == Load(reported_updates, reported_last_received) IN
        IF update = None
            THEN UNCHANGED <<reported_last_received, handled, last_branch>>
            ELSE /\ reported_last_received' = Received(reported_last_received, update)
                 /\ handled' = Append(handled, update)
                 /\ last_branch' = "reported"
    /\ UNCHANGED <<desired, reported, desired_properties_updates, stored_desired,
                   stored_reported, notify_log, last_patch, twin_run,
                   desired_initialized, reported_initialized, ready_pc,
                   get_desired_result, reported_updates, reported_seq,
                   reported_last_saved, drops, load_drops, run_base, session_vars,
                   chan_vars, diff_vars, store_vars, build_vars, send_vars, drop_vars,
                   inbox_vars, drain_vars, callback_vars, cred_vars, skew_vars,
                   snap_vars, watch_vars>>

\* Another branch of the select completes first: the pending recv is dropped.
\* The response branch acks the update of a patch response, removing its row.
OtherBranchWins ==
    \E branch \in OtherBranches :
        /\ drops < MaxDrops
        /\ drops' = drops + 1
        /\ load_drops' = IF recv_pc = "load" THEN load_drops + 1 ELSE load_drops
        /\ last_branch' = branch
        /\ recv_pc' = "wait_new"
        /\ \/ /\ branch = "response"
              /\ \E update \in Range(handled) \cap reported_updates :
                    reported_updates' = Remove(reported_updates, update)
           \/ UNCHANGED reported_updates
        /\ UNCHANGED <<desired, reported, desired_properties_updates, stored_desired,
                       stored_reported, notify_log, last_patch, twin_run,
                       desired_initialized, reported_initialized, ready_pc,
                       get_desired_result, reported_seq, reported_last_saved,
                       reported_last_received, handled, run_base, session_vars,
                       chan_vars, diff_vars, store_vars, build_vars, send_vars,
                       drop_vars, inbox_vars, drain_vars, callback_vars, cred_vars,
                       skew_vars, snap_vars, watch_vars>>

\* The process ends and a new one opens the same database file: the rows
\* stay, channel() creates a new watch and a new receiver, and the middleware
\* enters its loop.
RecvRestart ==
    /\ twin_run < MaxRuns
    /\ twin_run' = twin_run + 1
    /\ reported_last_saved' = None
    /\ reported_last_received' = None
    /\ recv_pc' = "wait_new"
    /\ handled' = <<>>
    /\ last_branch' = "none"
    /\ run_base' = reported_seq
    /\ UNCHANGED <<desired, reported, desired_properties_updates, stored_desired,
                   stored_reported, notify_log, last_patch, desired_initialized,
                   reported_initialized, ready_pc, get_desired_result,
                   reported_updates, reported_seq, drops, load_drops, session_vars,
                   chan_vars, diff_vars, store_vars, build_vars, send_vars, drop_vars,
                   inbox_vars, drain_vars, callback_vars, cred_vars, skew_vars,
                   snap_vars, watch_vars>>

NextRecv ==
    \/ EnqueueReportedUpdate
    \/ RecvWaitNew
    \/ RecvLoad
    \/ OtherBranchWins
    \/ RecvRestart

InitRecv == InitClient /\ InitDiffIdle /\ InitStoreIdle /\ InitBuildIdle /\ InitSendIdle /\ InitDropIdle /\ InitInboxIdle /\ InitDrainIdle /\ InitCallbackIdle /\ InitCredIdle /\ InitSkewIdle /\ InitSnapIdle /\ InitWatchIdle /\ InitRecvIdle

\* The middleware's loop over the durable channel, across a restart.
SpecRecv == InitRecv /\ [][NextRecv]_vars

\* The same with the recv future polled until it completes or is dropped;
\* the other branches complete finitely often.
FairSpecRecv ==
    /\ SpecRecv
    /\ WF_vars(RecvWaitNew)
    /\ WF_vars(RecvLoad)

Next ==
    \/ AddStore
    \/ AddNotify
    \/ LoaderList
    \/ LoaderForward
    \/ LoaderWake
    \/ SenderPublish
    \/ OutgoingPublish
    \/ IncomingPubAck
    \/ IncomingConnAck
    \/ IncomingOther
    \/ ConnectionError
    \/ HandleConnectionStateChange
    \/ WaitCall
    \/ WaitCount
    \/ WaitDecide
    \/ Restart

\* The device session: outbox, loader, sender, MQTT event loop, twin
\* middleware's connection-state branch, and the wait call.
Spec == Init /\ [][Next]_vars

\* The same session with every task scheduled fairly (each is its own tokio
\* task), a broker that acknowledges what it receives and a connection that
\* is re-established after an error.
FairSpec ==
    /\ Spec
    /\ WF_vars(AddNotify)
    /\ WF_vars(LoaderList)
    /\ WF_vars(LoaderForward)
    /\ WF_vars(LoaderWake)
    /\ WF_vars(SenderPublish)
    /\ WF_vars(OutgoingPublish)
    /\ WF_vars(IncomingPubAck)
    /\ WF_vars(IncomingConnAck)

(***************************************************************************)
(* Properties of the device-to-cloud outbox.                               *)
(***************************************************************************)
\* C1: a device-to-cloud message is deleted from the outbox only after that
\* message was published and its PUBACK arrived: every row remove_oldest has
\* deleted is a message whose own publish was acknowledged.
C1_RemovedOnlyConfirmed == Range(removed_log) \subseteq confirmed

C4_WaitReturnsEmpty ==
    [][(wait_pc = "counted" /\ wait_pc' = "returned")
        => /\ stored_before \cap outbox' = {}
           /\ (~enq_during_wait' => Cardinality(outbox') = 0)]_vars

\* The call returned Ok after waiting for messages stored before it, with no
\* enqueue in between.
C4_Witness ==
    /\ wait_pc = "returned"
    /\ stored_before # {}
    /\ ~enq_during_wait

\* C10: after a ConnectionError -> Ready edge of the connection state the
\* middleware remembers the disconnect until it has published GetTwins.
C10_EdgeRemembered == edge_open => was_disconnected


\* C20: remove_oldest runs only for the PUBACK of a publish on the D2C
\* events topic: whenever a step takes a row out of the outbox, the publish
\* the broker acknowledges in that step is a D2C publish.
C20_RemoveOnlyForD2C ==
    [][Cardinality(outbox') < Cardinality(outbox) =>
            (outgoing_pub # <<>> /\ IsD2CTopic(Head(outgoing_pub).topic))]_vars

\* C21: a desired patch whose version is not above the local desired
\* version is discarded: the handler of such a patch leaves the snapshot,
\* the store and the notifications as they were and sends no full-twin
\* request.
C21_StalePatchDiscarded ==
    [][\A version \in 1..MaxVersion :
        (desired.some /\ version <= desired.version /\ ReceiveDesiredPatch(version)) =>
            /\ UNCHANGED <<desired, stored_desired, notify_log>>
            /\ UNCHANGED <<requests, mqtt_requests>>]_vars

\* C22: a full twin overwrites a local snapshot only when the server's
\* version is strictly greater: within a run, every step that changes an
\* existing desired snapshot, its stored copy or the notifications raises
\* the desired version, and every step that changes an existing reported
\* snapshot or its stored copy raises the reported version.
C22_OverwriteOnlyNewer ==
    [][/\ (/\ desired.some
           /\ twin_run' = twin_run
           /\ \/ desired' # desired
              \/ stored_desired' # stored_desired
              \/ notify_log' # notify_log) => desired'.version > desired.version
       /\ (/\ reported.some
           /\ twin_run' = twin_run
           /\ \/ reported' # reported
              \/ stored_reported' # stored_reported) => reported'.version > reported.version]_vars


\* C24: every accepted change of the desired snapshot (a patch of version
\* local+1 or a full-twin install) writes the new snapshot to the store and
\* then enqueues exactly one notification carrying the new version.  A step
\* of the reconciler that changes the in-memory desired snapshot must leave
\* the stored snapshot equal to it and append exactly that version to the
\* notifications.
C24_ChangeStoredThenNotified ==
    [][(desired' # desired /\ desired'.some /\ twin_run' = twin_run) =>
        /\ stored_desired' = desired'
        /\ notify_log' = Append(notify_log, desired'.version)]_vars


\* C25: a panic or an error of the desired-properties callback stays in the
\* dispatcher thread.  While the dispatcher holds its sender the thread never
\* leaves its loop, every dispatch of the reconciler succeeds, and every
\* notification dispatched is delivered to the callback, in order, whatever
\* the earlier calls did.
C25_CallbackFailureContained ==
    /\ [](dispatch_sender = "some" => dispatcher_pc # "stopped")
    /\ [](\A i \in 1..Len(dispatch_results) : dispatch_results[i])
    /\ \A n \in 1..MaxNotify :
        (dispatched >= n) ~> (Len(callback_log) >= n /\ callback_log[n].version = n)

\* The first call panicked, the second returned an error, and the third
\* notification was delivered all the same.
C25_Witness ==
    /\ Len(callback_log) = 3
    /\ callback_log[1] = [version |-> 1, outcome |-> "panic"]
    /\ callback_log[2] = [version |-> 2, outcome |-> "err"]
    /\ callback_log[3].version = 3
    /\ dispatcher_pc = "recv"


\* C26 as stated: on every connection error the state becomes
\* ConnectionError, and a RefreshRegistration command is sent exactly when
\* the registration watch holds no unseen registration and the cause is a
\* refusal with NotAuthorized, BadUserNamePassword or ServiceUnavailable;
\* otherwise the channel is left as it was.
C26_RefreshIffRefusedAndSeen ==
    [][\A e \in ConnectionErrors : process_notification(e) =>
        /\ state' = "ConnectionError"
        /\ IF ~registration_watch.changed
                /\ e \in {"NotAuthorized", "BadUserNamePassword", "ServiceUnavailable"}
            THEN commands' = Append(commands, [kind |-> "RefreshRegistration", time |-> now])
            ELSE commands' = commands]_vars

\* C26, amended: the command is sent exactly when, in addition, the session
\* token is not cancelled; an error seen after the cancellation only sets
\* the state.
C26_RefreshIffRefusedSeenAndRunning ==
    [][\A e \in ConnectionErrors : process_notification(e) =>
        /\ state' = "ConnectionError"
        /\ IF ~cancellation /\ ~registration_watch.changed
                /\ e \in {"NotAuthorized", "BadUserNamePassword", "ServiceUnavailable"}
            THEN commands' = Append(commands, [kind |-> "RefreshRegistration", time |-> now])
            ELSE commands' = commands]_vars

\* A refusal with ServiceUnavailable was handled with nothing unseen on the
\* watch, and the command is in the channel.
C26_Witness ==
    /\ last_error = [cause |-> "ServiceUnavailable", unseen |-> FALSE,
                     cancelled |-> FALSE, sent |-> TRUE]
    /\ state = "ConnectionError"
    /\ el_pc = "sleep"
    /\ commands # <<>>
    /\ commands[Len(commands)].kind = "RefreshRegistration"


\* C27: when a connection error is handled (the session still running)
\* while the registration watch holds an unseen registration, the password
\* of the MQTT options becomes that registration's SAS in the same step, so
\* before the next connection attempt.  Hence, once the hub refuses the
\* password in use and the engine has published a new registration, the
\* session gets connected with that SAS or a later one (unless the session
\* is cancelled or that SAS expires first).
C27_NewestSasUsedOnReconnect ==
    /\ [][\A e \in ConnectionErrors :
            (process_notification(e) /\ ~cancellation /\ registration_watch.changed) =>
                /\ password' = registration_watch.sas
                /\ ~registration_watch'.changed
                /\ ~connected']_vars
    /\ \A g \in SasNumbers :
        (/\ ~connected /\ password < min_valid /\ ~cancellation
         /\ registration_watch = [sas |-> g, changed |-> TRUE])
            ~> (cancellation \/ min_valid > g \/ (connected /\ password >= g))

\* The hub refused the expired SAS 1, the engine registered again, the
\* next error put SAS 2 into the options and the session is connected with
\* it.
C27_Witness ==
    /\ connected
    /\ state = "Ready"
    /\ password = 2
    /\ min_valid = 2
    /\ registration_watch = [sas |-> 2, changed |-> FALSE]
    /\ last_error = [cause |-> "NotAuthorized", unseen |-> TRUE,
                     cancelled |-> FALSE, sent |-> FALSE]
    /\ ~cancellation

\* The engine issues no SAS beyond SasNumbers.
SasInRange == registration_watch.sas \in SasNumbers


\* C28: when the facade is dropped with an established connection the
\* session token is left alone by the drop itself and is cancelled by the
\* event loop's step on the outgoing Disconnect or by the end of the one
\* second window; dropped without an established connection, it is
\* cancelled in that step; and once the token is cancelled the event loop
\* processes no further MQTT event (here: the outgoing Disconnect).
C28_CancelThenNoMqttEvent ==
    [][/\ (drop_pc = "alive" /\ drop_pc' # "alive") =>
            IF connection_pc = "online"
                THEN cancellation' = cancellation /\ drop_pc' = "grace"
                ELSE cancellation'
       /\ (disconnect = "requested" /\ disconnect' = "sent") => cancellation'
       /\ (drop_pc = "grace" /\ drop_pc' # "grace") => cancellation'
       /\ (drop_pc \in {"alive", "grace"} /\ ~cancellation /\ cancellation') =>
            \/ drop_pc' = "join"
            \/ disconnect' = "sent"
       /\ cancellation => disconnect' = disconnect]_vars


\* The last attempt of the kind of the command at the head of the channel.
LastAttemptOfHead ==
    IF Head(commands).kind = "RefreshRegistrationToken"
        THEN last_token_refresh_attempt
        ELSE last_registration_refresh_attempt

\* C29: a command whose instant is earlier than the last attempt of its own
\* kind causes no call; a command whose instant is not earlier than the last
\* attempt of its own kind causes one, whatever the last attempt of the
\* other kind is; and after a call every command of that kind still in the
\* channel (so issued before the call ended) is earlier than the new last
\* attempt, hence causes no further call.
C29_StaleCommandsSkipped ==
    [][ProcessCommand =>
        LET kind == Head(commands).kind
            last_attempt_after == IF kind = "RefreshRegistrationToken"
                                      THEN last_token_refresh_attempt'
                                      ELSE last_registration_refresh_attempt'
        IN
        /\ last_command'.kind = kind
        /\ Head(commands).time < LastAttemptOfHead =>
            /\ last_command'.result = "none"
            /\ UNCHANGED <<registration_watch, sas_expired, token_expired, token_rejected>>
            /\ handler_pc' = "drain"
        /\ Head(commands).time >= LastAttemptOfHead =>
            /\ last_command'.result # "none"
            /\ last_attempt_after = now'
            /\ \A i \in 1..Len(commands') :
                commands'[i].kind = kind => commands'[i].time < last_attempt_after]_vars

\* Two RefreshRegistration commands were sent before the engine got to
\* them: the first caused the registration that issued SAS 2, the second
\* was skipped, and the channel is empty.
C29_Witness ==
    /\ last_command = [kind |-> "RefreshRegistration", stale |-> TRUE, result |-> "none"]
    /\ registration_watch = [sas |-> 2, changed |-> TRUE]
    /\ commands = <<>>
    /\ handler_pc = "drain"
    /\ last_error.sent


\* C30: when the registration keeps failing because the platform rejects
\* the registration token, the engine gets a new registration token and
\* then registers successfully, publishing the registration on the watch:
\* a rejected registration call leads to a token that is no longer the
\* rejected one and a successful registration.
C30_RejectedTokenReplaced ==
    (last_command = [kind |-> "RefreshRegistration", stale |-> FALSE, result |-> "invalid"])
        ~> (/\ ~token_rejected
            /\ last_command = [kind |-> "RefreshRegistration", stale |-> FALSE, result |-> "ok"])


\* C32: a reported-properties update leaves the queue only in a step that also
\* takes out of the request table the patch entry allocated for that update
\* (so it cannot leave twice), and handling a response whose request id is not
\* in the table changes neither the queue, the request table nor the twins.
C32_AckOnlyByOwnResponse ==
    [][/\ \A u \in reported_updates \ reported_updates' :
            \E r \in requests \ requests' :
                /\ r.type = "PatchReportedProperties"
                /\ r.update = u
                /\ \A q \in requests \ requests' : q = r
       /\ HandleUnknownResponse =>
            UNCHANGED <<reported_updates, requests, desired, reported,
                        desired_properties_updates, stored_desired,
                        stored_reported, desired_initialized,
                        reported_initialized, notify_log>>]_vars

\* An update has been acked by its response and is gone from the queue while
\* another request is still waiting for its own response.
C32_Witness ==
    /\ reported_seq >= 1
    /\ 1 \notin reported_updates
    /\ requests # {}


C34_FailedAckRetrievedAgain ==
    [][(proc_pc = "recv" /\ proc_pc' = "ack") =>
        /\ ack_failed # None => proc_msg' = ack_failed
        /\ last_received = None => \A id \in c2d_rows : proc_msg' <= id]_vars


\* C35: the change watch holds an unseen signal only while a desired snapshot
\* exists, and a desired_properties_changed call that was woken by it never
\* found the snapshot absent.
C35_SignalOnlyWithSnapshot ==
    /\ desired_properties_changed.unseen => desired.some
    /\ changed_result.called => ~changed_result.absent


\* C36: a pass of the loader that finds no message with an id above the last
\* one it forwarded ends with the task suspended on the latest-id watch.
C36_LoaderSuspendsWhenNothingNew ==
    [][(LoaderList /\ ListMessagesAfter(outbox, last_id) = <<>>)
            => loader_pc' = "wait"]_vars


\* C37: every message whose add has completed is eventually handed to the
\* sender, and the loader never sleeps on the latest-id watch with no change
\* pending while such a message with an id above its last forwarded id is in
\* the outbox.
C37_NoLostWakeup ==
    /\ [](~(/\ loader_pc = "wait"
            /\ ~latest_unseen
            /\ \E id \in outbox \ adding : id > last_id))
    /\ \A id \in 1..MaxMsgs :
        (id \in outbox \ adding) ~> (id \in Range(handed_log))


\* C38: a set_twins call that returns an error leaves the in-memory desired
\* and reported snapshots, the buffer of pending patches, the stored snapshots
\* and the latches as they were before the call.
C38_FailedSetTwinsChangesNothing ==
    [][(drained'.calls = drained.calls + 1 /\ ~drained'.ok) =>
            UNCHANGED <<desired, reported, desired_properties_updates,
                        stored_desired, stored_reported, desired_initialized,
                        reported_initialized>>]_vars


C40_EntriesOnlyForHandedRequests ==
    \A r \in requests :
        \/ r.rid \in twin_sent
        \/ \E q \in Range(mqtt_requests) \cup Range(mqtt_pending) \cup Range(outgoing_pub) :
                ~IsD2CTopic(q.topic) /\ q.id = r.rid

====
